---- MODULE Spec2Model ----
(***************************************************************************)
(* Verification model of the gameplan coaching application.                *)
(*                                                                         *)
(*   SpecParse  : the flashcard text parser (parseFlashcardContent), on    *)
(*                flashcard strings built character by character.          *)
(*   SpecApi    : the handler of /api/gameplan, the LLM and the data store *)
(*                under requests of any client.                            *)
(*   Spec       : the chat page of one user, the handler and the data      *)
(*                store.                                                   *)
(*   SpecDetail : the portfolio detail page, the handler and the data      *)
(*                store.                                                   *)
(*   SpecCard   : one FlashcardCard component on the page that shows it.   *)
(*   SpecProfile: the profile pages of the users and the table profiles.   *)
(*   SpecRace   : the chat page from the confirmation question on, with a  *)
(*                second decision and a re-run of the profile check.       *)
(*                                                                         *)
(* A JavaScript string is a sequence of one-character strings; the value   *)
(* null of a "string | null" is the empty sequence where the source can    *)
(* never produce the empty string.                                         *)
(***************************************************************************)
EXTENDS Integers, Sequences, FiniteSets, TLC

VARIABLES
  card,         \* parser input as drawn: the parts the flashcard string is built from
  content,      \* parser input: the raw flashcard string
  parsed,       \* result of the chat page copy of the parser, <<>> before the call
  parsedDetail, \* result of the portfolio detail page copy, <<>> before the call
  ppc,          \* which copies have run: [chat, detail : BOOLEAN]
  env,          \* server configuration: [apiKey : BOOLEAN] (OPENAI_API_KEY is set)
  reqs,         \* requests to /api/gameplan, by request number: input, position
                \* of the handler, its locals, its response
  dbGameplans,  \* table gameplans, by id: [user_id, topic, skill, completed]
  dbGoals,      \* table goals, by id: [gameplan_id, description, status]
  dbFlashcards, \* table flashcards, by id: [gameplan_id, content]
  \* --- chat page (React state of ChatPage)
  stage, profileLoading, selectedTopic, selectedSkill, messages, loadingFetch,
  currentGoals, flashcardsSubmitted, currentGameplanId, showCompletionButton,
  ops,          \* asynchronous work of the chat page that has not finished:
                \* fetches, the timer of handleGameplanDecision, updates
  acts,         \* number of user actions the chat page still accepts, by kind
  apiActs,      \* ... of these, the actions whose handler calls a backend function
  apiSent,      \* number of requests the chat page has sent to backend functions
  \* --- portfolio detail page (React state of GameplanDetailPage)
  router,       \* [pathname, id]: the page shown and router.query.id
  loading, errorMsg, gameplan, goals, flashcards, updatingGoalId,
  markingCompleted, detailSubmitted,
  detailOps,    \* asynchronous work of the detail page that has not finished
  detailActs,   \* number of user actions the detail page has accepted, by kind
  \* --- one FlashcardCard component (React state of FlashcardCard)
  host,         \* the page that renders the card: "chat", "detail" or "none"
  answers, showResults, correctCount,
  \* --- profile pages and the table profiles
  dbProfiles,   \* table profiles: rows [id, full_name, age]
  profilePages, \* by user: the profile page the user has open
  profileOps,   \* asynchronous work of the profile pages that has not finished
  profileActs,  \* number of user actions the profile pages have accepted, by kind
  nav           \* the browser: the signed-in user, the page shown, the effect
                \* of that page and the pages shown before it

parseVars == <<card, content, parsed, parsedDetail, ppc>>
dbVars == <<dbGameplans, dbGoals, dbFlashcards>>
apiVars == <<env, reqs>>
pageVars == <<stage, profileLoading, selectedTopic, selectedSkill, messages,
              loadingFetch, currentGoals, flashcardsSubmitted, currentGameplanId,
              showCompletionButton, ops, acts, apiActs, apiSent>>
detailVars == <<router, loading, errorMsg, gameplan, goals, flashcards,
                updatingGoalId, markingCompleted, detailSubmitted, detailOps,
                detailActs>>
cardVars == <<host, answers, showResults, correctCount>>
profileVars == <<dbProfiles, profilePages, profileOps, profileActs, nav>>
vars == <<card, content, parsed, parsedDetail, ppc, env, reqs,
          dbGameplans, dbGoals, dbFlashcards,
          stage, profileLoading, selectedTopic, selectedSkill, messages,
          loadingFetch, currentGoals, flashcardsSubmitted, currentGameplanId,
          showCompletionButton, ops, acts, apiActs, apiSent,
          router, loading, errorMsg, gameplan, goals, flashcards,
          updatingGoalId, markingCompleted, detailSubmitted, detailOps,
          detailActs, host, answers, showResults, correctCount,
          dbProfiles, profilePages, profileOps, profileActs, nav>>

(***************************************************************************)
(* Bounds                                                                  *)
(***************************************************************************)
MaxQuestions == 2
MaxRequests == 1
MaxDecisions == 1
MaxChats == 1
MaxGoalUpdates == 2
MaxSubmits == 1
MaxCompletes == 1
MaxRechecks == 1
MaxDetailUpdates == 2
MaxMarks == 1

(***************************************************************************)
(* JavaScript string primitives                                            *)
(***************************************************************************)
UpperCase == <<"A","B","C","D","E","F","G","H","I","J","K","L","M",
               "N","O","P","Q","R","S","T","U","V","W","X","Y","Z">>
LowerCase == <<"a","b","c","d","e","f","g","h","i","j","k","l","m",
               "n","o","p","q","r","s","t","u","v","w","x","y","z">>
Digits == {"0","1","2","3","4","5","6","7","8","9"}

toLowerCase(c) ==
  IF \E k \in 1..26 : UpperCase[k] = c
  THEN LowerCase[CHOOSE k \in 1..26 : UpperCase[k] = c]
  ELSE c

\* \s of a regular expression and the characters String.prototype.trim removes
IsSpace(c) == c \in {" ", "\t", "\r", "\n"}

\* \w of a regular expression
IsWordChar(c) ==
  \/ c \in Digits
  \/ c = "_"
  \/ \E k \in 1..26 : c = UpperCase[k] \/ c = LowerCase[k]

RECURSIVE trimStart(_)
trimStart(s) ==
  IF s # <<>> /\ IsSpace(Head(s)) THEN trimStart(Tail(s)) ELSE s

RECURSIVE trimEnd(_)
trimEnd(s) ==
  IF s # <<>> /\ IsSpace(s[Len(s)]) THEN trimEnd(SubSeq(s, 1, Len(s) - 1)) ELSE s

trim(s) == trimEnd(trimStart(s))

startsWith(s, p) == Len(s) >= Len(p) /\ SubSeq(s, 1, Len(p)) = p

\* startsWith under the i flag of a regular expression; p is in lower case
startsWithIgnoreCase(s, p) ==
  /\ Len(s) >= Len(p)
  /\ \A k \in 1..Len(p) : toLowerCase(s[k]) = p[k]

RECURSIVE split(_, _)
split(s, sep) ==
  IF \E i \in 1..Len(s) : s[i] = sep
  THEN LET i == CHOOSE i \in 1..Len(s) :
                  s[i] = sep /\ \A j \in 1..(i - 1) : s[j] # sep
       IN  <<SubSeq(s, 1, i - 1)>> \o split(SubSeq(s, i + 1, Len(s)), sep)
  ELSE <<s>>

filter(seq, Keep(_)) == SelectSeq(seq, Keep)

map(seq, F(_)) == [i \in 1..Len(seq) |-> F(seq[i])]

RECURSIVE join(_, _)
join(seq, sep) ==
  IF seq = <<>> THEN <<>>
  ELSE IF Len(seq) = 1 THEN seq[1]
  ELSE seq[1] \o sep \o join(Tail(seq), sep)

(***************************************************************************)
(* Literals of the parser                                                  *)
(***************************************************************************)
VideoMarker == <<"V","i","d","e","o",":"," ">>
DescriptionMarker == <<"D","e","s","c","r","i","p","t","i","o","n",":">>
QuestionsMarker == <<"Q","u","e","s","t","i","o","n","s",":">>
CorrectMarker == <<"C","o","r","r","e","c","t",":">>
CorrectMarkerLower == <<"c","o","r","r","e","c","t",":">>
UrlHttp == <<"h","t","t","p">>
UrlSlashes == <<":","/","/">>
UrlWww == <<"w","w","w",".">>
UrlWatch == <<"y","o","u","t","u","b","e",".","c","o","m","/",
              "w","a","t","c","h","?","v","=">>
Null == <<>>

(***************************************************************************)
(* content.match(/https?:\/\/(www\.)?youtube\.com\/watch\?v=[\w-]+/i)      *)
(***************************************************************************)
litAt(s, i, lit) ==
  /\ i + Len(lit) - 1 <= Len(s)
  /\ \A k \in 1..Len(lit) : toLowerCase(s[i + k - 1]) = lit[k]

RECURSIVE idEnd(_, _)
\* greedy [\w-]+ : the index after the last character of the run starting at i
idEnd(s, i) ==
  IF i <= Len(s) /\ (IsWordChar(s[i]) \/ s[i] = "-") THEN idEnd(s, i + 1) ELSE i

\* index after the match that starts at i, 0 if there is none
urlMatchEnd(s, i) ==
  IF ~litAt(s, i, UrlHttp) THEN 0
  ELSE LET a == IF litAt(s, i + 4, <<"s">>) THEN i + 5 ELSE i + 4 IN
       IF ~litAt(s, a, UrlSlashes) THEN 0
       ELSE LET b == IF litAt(s, a + 3, UrlWww) THEN a + 7 ELSE a + 3 IN
            IF ~litAt(s, b, UrlWatch) THEN 0
            ELSE LET e == idEnd(s, b + Len(UrlWatch)) IN
                 IF e = b + Len(UrlWatch) THEN 0 ELSE e

urlMatch(s) ==
  IF \E i \in 1..Len(s) : urlMatchEnd(s, i) # 0
  THEN LET i == CHOOSE i \in 1..Len(s) :
                  urlMatchEnd(s, i) # 0 /\ \A j \in 1..(i - 1) : urlMatchEnd(s, j) = 0
       IN  SubSeq(s, i, urlMatchEnd(s, i) - 1)
  ELSE Null

(***************************************************************************)
(* Line classification of the question loop                                *)
(***************************************************************************)
RECURSIVE digitsEnd(_, _)
digitsEnd(s, i) ==
  IF i <= Len(s) /\ s[i] \in Digits THEN digitsEnd(s, i + 1) ELSE i

\* /^\d+\.\s/.test(line)
IsPromptLine(line) ==
  LET e == digitsEnd(line, 1) IN
  /\ e > 1
  /\ e + 1 <= Len(line)
  /\ line[e] = "."
  /\ IsSpace(line[e + 1])

\* line.replace(/^\d+\.\s*/, "")
stripNumber(line) ==
  LET e == digitsEnd(line, 1) IN
  IF e > 1 /\ e <= Len(line) /\ line[e] = "."
  THEN trimStart(SubSeq(line, e + 1, Len(line)))
  ELSE line

\* /^[a-d]\)/i.test(line)
IsOptionLine_onlyABC(line) ==
  /\ Len(line) >= 2
  /\ toLowerCase(line[1]) \in {"a", "b", "c"}
  /\ line[2] = ")"

IsOptionLine(line) ==
  /\ Len(line) >= 2
  /\ toLowerCase(line[1]) \in {"a", "b", "c", "d"}
  /\ line[2] = ")"

\* line.replace(/^[a-d]\)\s*/, "") : no i flag
stripOption(line) ==
  IF Len(line) >= 2 /\ line[1] \in {"a", "b", "c", "d"} /\ line[2] = ")"
  THEN trimStart(SubSeq(line, 3, Len(line)))
  ELSE line

\* /^Correct:/i.test(line)
IsCorrectLine(line) == startsWithIgnoreCase(line, CorrectMarkerLower)

\* line.replace(/^Correct:\s*/, "") : no i flag
stripCorrect(line) ==
  IF startsWith(line, CorrectMarker)
  THEN trimStart(SubSeq(line, Len(CorrectMarker) + 1, Len(line)))
  ELSE line

\* line.replace("Description:", "") : the first occurrence
stripDescription(line) ==
  IF \E i \in 1..Len(line) : startsWith(SubSeq(line, i, Len(line)), DescriptionMarker)
  THEN LET i == CHOOSE i \in 1..Len(line) :
                  /\ startsWith(SubSeq(line, i, Len(line)), DescriptionMarker)
                  /\ \A j \in 1..(i - 1) :
                       ~startsWith(SubSeq(line, j, Len(line)), DescriptionMarker)
       IN  SubSeq(line, 1, i - 1) \o SubSeq(line, i + Len(DescriptionMarker), Len(line))
  ELSE line

(***************************************************************************)
(* parseFlashcardContent                                                   *)
(***************************************************************************)
NotVideoLine(line) == ~startsWith(line, VideoMarker)
NotEmpty(line) == line # <<>>
NotBlank(line) == trim(line) # <<>>

\* chat page: split, drop the Video line, trim every line, drop empty lines
cleanedLines(c) == filter(map(filter(split(c, "\n"), NotVideoLine), trim), NotEmpty)

\* the section loop: st = [descriptionLines, questionsSection, inQuestions]
sectionStep(st, line) ==
  IF startsWith(line, DescriptionMarker)
  THEN [st EXCEPT !.descriptionLines = Append(@, trim(stripDescription(line)))]
  ELSE IF startsWith(line, QuestionsMarker)
  THEN [st EXCEPT !.inQuestions = TRUE]
  ELSE IF st.inQuestions
  THEN [st EXCEPT !.questionsSection = Append(@, line)]
  ELSE st

RECURSIVE sectionLoop(_, _)
sectionLoop(st, lines) ==
  IF lines = <<>> THEN st ELSE sectionLoop(sectionStep(st, Head(lines)), Tail(lines))

sections(lines) ==
  sectionLoop([descriptionLines |-> <<>>, questionsSection |-> <<>>,
               inQuestions |-> FALSE], lines)

\* the question loop: st = [questions, currentQ]; currentQ is <<>> for null,
\* <<q>> for an open record
questionStep_carryCorrect(st, rawLine) ==
  LET line == trim(rawLine) IN
  IF IsPromptLine(line)
  THEN [questions |-> st.questions \o st.currentQ,
        currentQ |-> <<[prompt |-> trim(stripNumber(line)), options |-> <<>>,
                        correct |-> IF st.currentQ = <<>> THEN <<>>
                                    ELSE st.currentQ[1].correct]>>]
  ELSE IF IsOptionLine(line)
  THEN IF st.currentQ # <<>>
       THEN [st EXCEPT !.currentQ[1].options = Append(@, trim(stripOption(line)))]
       ELSE st
  ELSE IF IsCorrectLine(line)
  THEN IF st.currentQ # <<>>
       THEN [st EXCEPT !.currentQ[1].correct = trim(stripCorrect(line))]
       ELSE st
  ELSE IF st.currentQ # <<>> /\ Len(st.currentQ[1].options) > 0
  THEN [st EXCEPT !.currentQ[1].options[Len(st.currentQ[1].options)] = @ \o <<" ">> \o line]
  ELSE IF st.currentQ # <<>>
  THEN [st EXCEPT !.currentQ[1].prompt = @ \o <<" ">> \o line]
  ELSE st

questionStep(st, rawLine) ==
  LET line == trim(rawLine) IN
  IF IsPromptLine(line)
  THEN [questions |-> st.questions \o st.currentQ,
        currentQ |-> <<[prompt |-> trim(stripNumber(line)), options |-> <<>>,
                        correct |-> <<>>]>>]
  ELSE IF IsOptionLine(line)
  THEN IF st.currentQ # <<>>
       THEN [st EXCEPT !.currentQ[1].options = Append(@, trim(stripOption(line)))]
       ELSE st
  ELSE IF IsCorrectLine(line)
  THEN IF st.currentQ # <<>>
       THEN [st EXCEPT !.currentQ[1].correct = trim(stripCorrect(line))]
       ELSE st
  ELSE IF st.currentQ # <<>> /\ Len(st.currentQ[1].options) > 0
  THEN [st EXCEPT !.currentQ[1].options[Len(st.currentQ[1].options)] = @ \o <<" ">> \o line]
  ELSE IF st.currentQ # <<>>
  THEN [st EXCEPT !.currentQ[1].prompt = @ \o <<" ">> \o line]
  ELSE st

RECURSIVE questionLoop(_, _)
questionLoop(st, lines) ==
  IF lines = <<>> THEN st.questions \o st.currentQ
  ELSE questionLoop(questionStep(st, Head(lines)), Tail(lines))

parseQuestions(questionsSection) ==
  questionLoop([questions |-> <<>>, currentQ |-> <<>>], questionsSection)

parseFlashcardContent(c) ==
  LET sec == sections(cleanedLines(c)) IN
  [videoUrl |-> urlMatch(c),
   descriptionLines |-> sec.descriptionLines,
   questions |-> parseQuestions(sec.questionsSection)]

\* portfolio detail page: split, drop the Video line, drop blank lines (no trim)
detailLines(c) == filter(filter(split(c, "\n"), NotVideoLine), NotBlank)

parseFlashcardContentDetail(c) ==
  LET sec == sections(detailLines(c)) IN
  [videoUrl |-> urlMatch(c),
   descriptionLines |-> sec.descriptionLines,
   questions |-> parseQuestions(sec.questionsSection)]

(***************************************************************************)
(* Flashcard strings the parser is run on                                  *)
(***************************************************************************)
Url1 == <<"h","t","t","p","s",":","/","/","w","w","w",".","y","o","u","t","u","b","e",
          ".","c","o","m","/","w","a","t","c","h","?","v","=","a","B","-","1">>
Url2 == <<"h","t","t","p",":","/","/","Y","o","u","t","u","b","e",
          ".","c","o","m","/","w","a","t","c","h","?","v","=","x","_","9">>
Desc1 == <<"H","i"," ","a","l","l">>
Desc2 == <<"t","o"," ","y","o","u">>
Note == <<"T","i","p">>
Prompt1 == <<"W","h","y","?">>
Prompt2 == <<"a",")"," ","o","r"," ","2",".">>
OptionTexts == << <<"u","p">>, <<"1","."," ","v">>, <<"C","o","r","r","e","c","t",":","w">>,
                  <<"z">> >>
NumberText == <<"1","2","3","4","5","6","7","8","9">>
OptionLetters == <<"a","b","c","d">>

\* a block: the prompt text, the letter of its Correct: line ("" when the block
\* has no Correct: line), and whether its markers are written in upper case
Blocks == [prompt : {Prompt1, Prompt2},
           correct : {"a", "b", "c", "d", ""},
           upper : BOOLEAN]

BlockSeqs == UNION {[1..n -> Blocks] : n \in 1..MaxQuestions}

\* header "full": Video, Description and Questions lines; "noVideo": no Video
\* line; "bare": none of the three marker lines; "indented": the Description
\* and Questions lines start with white space; "wrapped": the description runs
\* over two lines, an empty line follows it, and a note follows the last block
Cards == [url : {Url1, Url2}, header : {"full"}, blocks : BlockSeqs]
           \cup [url : {Url1}, header : {"noVideo", "bare"}, blocks : BlockSeqs]
           \cup [url : {Url1}, header : {"indented", "wrapped"},
                 blocks : {b \in BlockSeqs : Len(b) = 1}]

toUpperCase(c) ==
  IF \E k \in 1..26 : LowerCase[k] = c
  THEN UpperCase[CHOOSE k \in 1..26 : LowerCase[k] = c]
  ELSE c

markerLetter(b, i) ==
  IF b.upper THEN toUpperCase(OptionLetters[i]) ELSE OptionLetters[i]

blockLines(b, k) ==
  << <<NumberText[k], ".", " ">> \o b.prompt >>
    \o [i \in 1..4 |-> <<markerLetter(b, i), ")", " ">> \o OptionTexts[i]]
    \o (IF b.correct = "" THEN <<>>
        ELSE << CorrectMarker \o <<" ">>
                 \o <<IF b.upper THEN toUpperCase(b.correct) ELSE b.correct>> >>)

RECURSIVE allBlockLines(_, _)
allBlockLines(blocks, k) ==
  IF k > Len(blocks) THEN <<>>
  ELSE blockLines(blocks[k], k) \o allBlockLines(blocks, k + 1)

headerLines(c) ==
  (IF c.header \in {"full", "indented", "wrapped"}
     THEN << VideoMarker \o c.url >> ELSE <<>>)
    \o (IF c.header = "bare" THEN <<>>
        ELSE IF c.header = "indented"
          THEN << <<" ">> \o DescriptionMarker \o <<" ">> \o Desc1,
                  <<" ", " ">> \o QuestionsMarker >>
        ELSE IF c.header = "wrapped"
          THEN << DescriptionMarker \o <<" ">> \o Desc1, Desc2, <<>>, QuestionsMarker >>
        ELSE << DescriptionMarker \o <<" ">> \o Desc1, QuestionsMarker >>)

footerLines(c) == IF c.header = "wrapped" THEN <<Note>> ELSE <<>>

buildContent(c) ==
  join(headerLines(c) \o allBlockLines(c.blocks, 1) \o footerLines(c), <<"\n">>)

\* the well-formed flashcard strings: the three marker lines, and every block
\* written with a) to d) and a Correct: line naming one of these letters
WellFormed(c) ==
  /\ c.header = "full"
  /\ \A k \in 1..Len(c.blocks) : ~c.blocks[k].upper /\ c.blocks[k].correct # ""

(***************************************************************************)
(* SpecParse: draw a flashcard string, run each copy of the parser on it   *)
(***************************************************************************)
\* useState initial values of ChatPage (chat.tsx 130-165)
PageInit ==
  /\ stage = "loading"
  /\ profileLoading = TRUE
  /\ selectedTopic = ""
  /\ selectedSkill = ""
  /\ messages = <<>>
  /\ loadingFetch = FALSE
  /\ currentGoals = <<>>
  /\ flashcardsSubmitted = <<>>
  /\ currentGameplanId = 0
  /\ showCompletionButton = FALSE
  /\ ops = <<>>
  /\ acts = [decisions |-> MaxDecisions, chats |-> MaxChats,
             goalUpdates |-> MaxGoalUpdates, submits |-> MaxSubmits,
             completes |-> MaxCompletes, rechecks |-> 0]
  /\ apiActs = 0
  /\ apiSent = 0

\* useState initial values of GameplanDetailPage (portfolio/[id].tsx 35-42);
\* the detail page is not open
DetailIdle ==
  /\ router = [pathname |-> "/chat", id |-> 0]
  /\ loading = TRUE
  /\ errorMsg = ""
  /\ gameplan = <<>>
  /\ goals = <<>>
  /\ flashcards = <<>>
  /\ updatingGoalId = 0
  /\ markingCompleted = FALSE
  /\ detailSubmitted = <<>>
  /\ detailOps = <<>>
  /\ detailActs = [updates |-> 0, marks |-> 0]

\* useState initial values of FlashcardCard (FlashcardCard.tsx 26-28); no card
\* is rendered
CardIdle ==
  /\ host = "none"
  /\ answers = <<>>
  /\ showResults = FALSE
  /\ correctCount = 0

\* no profile page is open, no profile is stored
\* no page is open in the browser
NavIdle == [user |-> "none", path |-> "", version |-> "", effect |-> "idle", trail |-> <<>>]

ProfileIdle ==
  /\ dbProfiles = <<>>
  /\ profilePages = <<>>
  /\ profileOps = <<>>
  /\ profileActs = [visits |-> 0, saves |-> 0]
  /\ nav = NavIdle

\* the application around the parser is not started
SystemIdle ==
  /\ env = [apiKey |-> TRUE]
  /\ reqs = <<>>
  /\ dbGameplans = <<>>
  /\ dbGoals = <<>>
  /\ dbFlashcards = <<>>
  /\ PageInit
  /\ CardIdle
  /\ ProfileIdle
  /\ DetailIdle

InitParse ==
  /\ card \in Cards
  /\ content = buildContent(card)
  /\ parsed = <<>>
  /\ parsedDetail = <<>>
  /\ ppc = [chat |-> FALSE, detail |-> FALSE]
  /\ SystemIdle

ParseChat ==
  /\ ~ppc.chat
  /\ parsed' = parseFlashcardContent(content)
  /\ ppc' = [ppc EXCEPT !.chat = TRUE]
  /\ UNCHANGED <<card, content, parsedDetail>>
  /\ UNCHANGED <<apiVars, dbVars, pageVars, detailVars, cardVars>>
  /\ UNCHANGED profileVars

ParseDetail ==
  /\ ~ppc.detail
  /\ parsedDetail' = parseFlashcardContentDetail(content)
  /\ ppc' = [ppc EXCEPT !.detail = TRUE]
  /\ UNCHANGED <<card, content, parsed>>
  /\ UNCHANGED <<apiVars, dbVars, pageVars, detailVars, cardVars>>
  /\ UNCHANGED profileVars

NextParse == ParseChat \/ ParseDetail

SpecParse == InitParse /\ [][NextParse]_vars

(***************************************************************************)
(* Properties of the parser                                                *)
(***************************************************************************)
CorrectLetters == {<<"a">>, <<"b">>, <<"c">>, <<"d">>}

IsFlashcardParsed(p) ==
  /\ DOMAIN p = {"videoUrl", "descriptionLines", "questions"}
  /\ \A k \in 1..Len(p.questions) :
       DOMAIN p.questions[k] = {"prompt", "options", "correct"}

QuestionsWellFormed(p, c) ==
  /\ Len(p.questions) = Len(c.blocks)
  /\ \A k \in 1..Len(p.questions) :
       /\ p.questions[k].prompt = c.blocks[k].prompt
       /\ p.questions[k].prompt # <<>>
       /\ Len(p.questions[k].options) = 4
       /\ p.questions[k].correct \in CorrectLetters

\* C1: for every well-formed flashcard string with N question blocks, each copy
\* of parseFlashcardContent returns exactly N question records in input order,
\* each with a non-empty prompt, exactly four options and a correct field that
\* is one of a, b, c, d.
C1_WellFormedParse ==
  WellFormed(card) =>
    /\ ppc.chat => QuestionsWellFormed(parsed, card)
    /\ ppc.detail => QuestionsWellFormed(parsedDetail, card)

C1_Witness ==
  /\ WellFormed(card)
  /\ ppc.chat /\ ppc.detail
  /\ Len(card.blocks) >= 2
  /\ Len(parsed.questions) = Len(card.blocks)
  /\ parsed.questions[1].correct # parsed.questions[2].correct

\* the cards written with lower-case markers, with or without Correct: lines
LowerCaseCard(c) ==
  /\ c.header = "full"
  /\ \A k \in 1..Len(c.blocks) : ~c.blocks[k].upper

QuestionsAsWritten(p, c) ==
  /\ Len(p.questions) = Len(c.blocks)
  /\ \A k \in 1..Len(p.questions) :
       /\ p.questions[k].prompt = c.blocks[k].prompt
       /\ p.questions[k].options = OptionTexts
       /\ p.questions[k].correct =
            (IF c.blocks[k].correct = "" THEN <<>> ELSE <<c.blocks[k].correct>>)

\* C2: the parser returns a FlashcardParsed record for every input string, and
\* a question block without a Correct: line yields a record whose correct field
\* is the empty string, while the prompt and options of that block and all
\* other blocks of the card are parsed as they are written.
C2_MissingCorrect ==
  /\ ppc.chat =>
       /\ IsFlashcardParsed(parsed)
       /\ LowerCaseCard(card) => QuestionsAsWritten(parsed, card)
  /\ ppc.detail =>
       /\ IsFlashcardParsed(parsedDetail)
       /\ LowerCaseCard(card) => QuestionsAsWritten(parsedDetail, card)

C2_Witness ==
  /\ LowerCaseCard(card)
  /\ ppc.chat
  /\ Len(card.blocks) >= 2
  /\ card.blocks[1].correct # ""
  /\ card.blocks[2].correct = ""
  /\ parsed.questions[2].correct = <<>>
  /\ parsed.questions[1].correct # <<>>

\* C14: the copies of the parser on the chat page and on the portfolio detail
\* page are the same function: for every input string they return the same
\* videoUrl, the same descriptionLines and the same list of question records.
C14_SameFunction ==
  (ppc.chat /\ ppc.detail) =>
    /\ parsed.videoUrl = parsedDetail.videoUrl
    /\ parsed.descriptionLines = parsedDetail.descriptionLines
    /\ parsed.questions = parsedDetail.questions

\* the non-empty lines a card holds between the Description: marker and the
\* Questions: marker, and the non-empty lines it holds after Questions:
descriptionBlock(c) ==
  IF c.header = "bare" THEN <<>>
  ELSE IF c.header = "wrapped" THEN <<Desc1, Desc2>>
  ELSE <<Desc1>>

questionBlock(c) ==
  IF c.header = "bare" THEN <<>>
  ELSE allBlockLines(c.blocks, 1) \o footerLines(c)

\* C15: parseFlashcardContent of the chat page splits the text that remains
\* after removing the Video: line into a description block and a question
\* block: every non-empty line after the Description: marker and before the
\* Questions: marker is part of descriptionLines, and every non-empty line
\* after the Questions: marker belongs to the question block and to no
\* description line.
C15_TwoBlocks ==
  ppc.chat =>
    /\ parsed.descriptionLines = descriptionBlock(card)
    /\ sections(cleanedLines(content)).questionsSection = questionBlock(card)

\* the records the question block of a card stands for: the prompt of each
\* 'N. ' line, the four option texts without their markers, and the letter of
\* the Correct: line as it is written
correctAsWritten(b) ==
  IF b.correct = "" THEN <<>>
  ELSE IF b.upper THEN <<toUpperCase(b.correct)>>
  ELSE <<b.correct>>

\* C16: in the question block the parser opens a new record at each 'N. '
\* line, adds one option per line marked a) to d) in either letter case with
\* the letter marker removed from the option text, sets correct from the
\* Correct: line with the marker removed, and appends any other line to the
\* field of the open record that was filled last.
C16_QuestionRecords ==
  (ppc.chat /\ card.header \in {"full", "noVideo", "wrapped"}) =>
    /\ Len(parsed.questions) = Len(card.blocks)
    /\ \A k \in 1..Len(parsed.questions) :
         LET b == card.blocks[k]
             noted == k = Len(card.blocks) /\ footerLines(card) # <<>>
         IN /\ parsed.questions[k].prompt = b.prompt
            /\ parsed.questions[k].options =
                 (IF noted /\ b.correct = ""
                    THEN [OptionTexts EXCEPT ![4] = @ \o <<" ">> \o Note]
                    ELSE OptionTexts)
            /\ parsed.questions[k].correct =
                 (IF noted /\ b.correct # ""
                    THEN correctAsWritten(b) \o <<" ">> \o Note
                    ELSE correctAsWritten(b))

(***************************************************************************)
(* /api/gameplan: values of the request and of the LLM reply               *)
(***************************************************************************)
Users == {"u1", "u2"}
NoSession == "none"
Undefined == 0          \* the id of no row: gameplanId of a failed insert

Str(v) == [type |-> "string", value |-> v]
NotAString == [type |-> "undefined", value |-> ""]
typeof(v) == v.type

\* the requests a client can send: method, the result of getSession for its
\* cookies (session user or none, sessionError) and the body
RequestInputs ==
  [method : {"POST", "GET"}, session : {NoSession}, sessionError : {FALSE},
   body : {[userId |-> Str("u1"), topic |-> Str("Leadership"), skill |-> Str("DEI")],
           [userId |-> NotAString, topic |-> Str("Leadership"), skill |-> Str("DEI")]}]
  \cup
  [method : {"POST"}, session : {"u1"}, sessionError : {TRUE},
   body : {[userId |-> Str("u1"), topic |-> Str("Leadership"), skill |-> Str("DEI")]}]
  \cup
  [method : {"POST", "GET"}, session : {"u1"}, sessionError : {FALSE},
   body : {[userId |-> Str("u1"), topic |-> Str("Leadership"), skill |-> Str("DEI")],
           [userId |-> Str("u2"), topic |-> Str("Leadership"), skill |-> Str("DEI")]}]
  \cup
  [method : {"POST"}, session : {"u2"}, sessionError : {FALSE},
   body : {[userId |-> Str("u2"), topic |-> NotAString, skill |-> Str("DEI")]}]

\* JSON values of the reply: goals and flashcards as the LLM wrote them
JArray(items) == [type |-> "array", items |-> items]
JUndefined == [type |-> "undefined", items |-> <<>>]
isArray(v) == v.type = "array"

VideoUrlText == <<"h", "t", "t", "p", ":", "/", "/", "v">>
DescriptionText == <<"d", "e", "s", "c">>

\* flashcard items: a string, an object with the three keys, anything else
FcString == [type |-> "string", value |-> <<" ", "s", "1">>,
             keys |-> {}, video_url |-> <<>>, description |-> <<>>,
             questions |-> <<>>, iterable |-> TRUE]
FcObject == [type |-> "object", value |-> <<>>,
             keys |-> {"video_url", "description", "questions"},
             video_url |-> VideoUrlText, description |-> DescriptionText,
             questions |-> << Str(<<"1", ".", " ", "q">>), NotAString,
                              Str(<<"a", ")", " ", "o">>) >>,
             iterable |-> TRUE]
FcBadQuestions == [type |-> "object", value |-> <<>>,
                   keys |-> {"video_url", "description", "questions"},
                   video_url |-> VideoUrlText, description |-> DescriptionText,
                   questions |-> <<>>, iterable |-> FALSE]
FcNumber == [type |-> "number", value |-> <<"4", "2">>,
             keys |-> {}, video_url |-> <<>>, description |-> <<>>, questions |-> <<>>, iterable |-> TRUE]

GoalsOk == JArray(<<Str("g1"), Str("g2")>>)
GoalsNotStrings == JArray(<<Str("g1"), [type |-> "number", value |-> "7"]>>)

\* the text of a reply is a sequence of tokens: "{" and "}", "G" the member
\* "goals": ..., "F" the member "flashcards": ..., "n" the literal null,
\* "x" any character of prose
BracedText == <<"{", "G", "F", "}">>
LlmReplies ==
  [text : {BracedText, <<"x", "{", "G", "F", "}", "x">>},
   goals : {GoalsOk}, flashcards : {JArray(<<FcString, FcObject>>)}]
  \cup
  [text : {BracedText},
   goals : {GoalsOk, JArray(<<>>)},
   flashcards : {JArray(<<FcNumber>>), JArray(<<>>), JArray(<<FcBadQuestions>>)}]
  \cup
  [text : {BracedText}, goals : {GoalsNotStrings, Str("g1")},
   flashcards : {JArray(<<FcString>>)}]
  \cup
  [text : {BracedText}, goals : {GoalsOk}, flashcards : {Str("f")}]
  \cup
  [text : {<<>>, <<"x">>, <<"n">>, <<"{", "x", "}">>, <<"x", "{", "G", "}", "}", "{">>,
           <<"}", "x", "{">>, <<"{", "G", "}">>, <<"{", "G", "F", "}", "{", "F", "}">>},
   goals : {GoalsOk}, flashcards : {JArray(<<FcString>>)}]

(***************************************************************************)
(* JSON.parse and the extraction fallback (gameplan.ts 88-103)             *)
(***************************************************************************)
\* JSON.parse(text): the literal null, or an object of members
jsonParses(text) ==
  \/ text = <<"n">>
  \/ /\ Len(text) >= 2
     /\ text[1] = "{"
     /\ text[Len(text)] = "}"
     /\ \A k \in 2..(Len(text) - 1) : text[k] \in {"G", "F"}

\* the value JSON.parse returns for a text it accepts
jsonValue(text, reply) ==
  [isNull |-> text = <<"n">>,
   goals |-> IF \E k \in 1..Len(text) : text[k] = "G" THEN reply.goals ELSE JUndefined,
   flashcards |-> IF \E k \in 1..Len(text) : text[k] = "F"
                  THEN reply.flashcards ELSE JUndefined]

\* raw.match(/\{[\s\S]*\}/): from the first "{" to the last "}" after it
braceMatch(raw) ==
  LET opens == {i \in 1..Len(raw) : raw[i] = "{"}
      first == CHOOSE i \in opens : \A j \in opens : i <= j
      closes == {i \in 1..Len(raw) : raw[i] = "}" /\ i > first}
      last == CHOOSE i \in closes : \A j \in closes : j <= i
  IN  IF opens = {} THEN <<>>
      ELSE IF closes = {} THEN <<>>
      ELSE SubSeq(raw, first, last)

\* outcome of lines 88-103: "parsed" with the value, "malformed" for the
\* response of line 99, "throw" when JSON.parse of the match throws
parseReply(reply) ==
  LET raw == reply.text IN
  IF jsonParses(raw) THEN [outcome |-> "parsed", value |-> jsonValue(raw, reply)]
  ELSE IF braceMatch(raw) # <<>>
       THEN IF jsonParses(braceMatch(raw))
            THEN [outcome |-> "parsed", value |-> jsonValue(braceMatch(raw), reply)]
            ELSE [outcome |-> "throw", value |-> jsonValue(<<>>, reply)]
       ELSE [outcome |-> "malformed", value |-> jsonValue(<<>>, reply)]

(***************************************************************************)
(* normalizedFlashcards (gameplan.ts 126-157)                              *)
(***************************************************************************)
RECURSIVE questionLines(_)
questionLines(qs) ==
  IF qs = <<>> THEN <<>>
  ELSE (IF typeof(Head(qs)) = "string" THEN Head(qs).value \o <<"\n">> ELSE <<>>)
         \o questionLines(Tail(qs))

normalizeFlashcard(item) ==
  IF typeof(item) = "string" THEN trim(item.value)
  ELSE IF typeof(item) = "object"
          /\ {"video_url", "description", "questions"} \subseteq item.keys
  THEN trim(VideoMarker \o item.video_url \o <<"\n">>
            \o DescriptionMarker \o <<" ">> \o item.description \o <<"\n">>
            \o QuestionsMarker \o <<"\n">>
            \o questionLines(item.questions))
  ELSE item.value      \* JSON.stringify(item)

\* the for..of over obj.questions throws when questions is not iterable
normalizeThrows(items) ==
  \E k \in 1..Len(items) :
    /\ typeof(items[k]) = "object"
    /\ {"video_url", "description", "questions"} \subseteq items[k].keys
    /\ ~items[k].iterable

(***************************************************************************)
(* The handler of /api/gameplan                                            *)
(***************************************************************************)
NoResponse ==
  [status |-> 0, error |-> "", gameplanId |-> Undefined, goals |-> <<>>,
   flashcards |-> <<>>]

ErrorResponse(code, msg) ==
  [status |-> code, error |-> msg, gameplanId |-> Undefined, goals |-> <<>>,
   flashcards |-> <<>>]

NewRequest(in, origin) ==
  [method |-> in.method, session |-> in.session, sessionError |-> in.sessionError,
   body |-> in.body, origin |-> origin, pc |-> "sent",
   completion |-> "none", raw |-> <<>>,
   llmCalls |-> 0, gameplanInserts |-> 0, goalInserts |-> 0, flashcardInserts |-> 0,
   goals |-> <<>>, normalizedFlashcards |-> <<>>,
   gameplanId |-> Undefined, returnedGoals |-> <<>>, res |-> NoResponse]

\* a handler whose every response is the 500 of its catch block
Respond_caught(r, response) ==
  reqs' = [reqs EXCEPT ![r].pc = "done",
             ![r].res = ErrorResponse(500, "Failed to generate gameplan. Please try again.")]

Respond(r, response) ==
  reqs' = [reqs EXCEPT ![r].pc = "done", ![r].res = response]

\* a client other than the chat page posts to the endpoint
DirectRequest(in) ==
  /\ Len(reqs) < MaxRequests
  /\ reqs' = Append(reqs, NewRequest(in, "direct"))
  /\ UNCHANGED <<env, dbVars, parseVars, pageVars, detailVars, cardVars>>
  /\ UNCHANGED profileVars

\* lines 28-40: the method check, then the call of getSession
HandlerReceive(r) ==
  /\ reqs[r].pc = "sent"
  /\ IF reqs[r].method # "POST"
     THEN Respond(r, ErrorResponse(405, "Method GET Not Allowed"))
     ELSE reqs' = [reqs EXCEPT ![r].pc = "getSession"]
  /\ UNCHANGED <<env, dbVars, parseVars, pageVars, detailVars, cardVars>>
  /\ UNCHANGED profileVars

\* lines 42-83 with the API key checked before the session
HandlerSession_keyFirst(r) ==
  /\ reqs[r].pc = "getSession"
  /\ IF ~env.apiKey
     THEN Respond(r, ErrorResponse(500, "Server misconfiguration: missing OpenAI API key"))
     ELSE IF reqs[r].sessionError \/ reqs[r].session = NoSession
     THEN Respond(r, ErrorResponse(401, "Unauthorized"))
     ELSE IF \/ typeof(reqs[r].body.userId) # "string"
             \/ typeof(reqs[r].body.topic) # "string"
             \/ typeof(reqs[r].body.skill) # "string"
     THEN Respond(r, ErrorResponse(400, "Invalid request body"))
     ELSE reqs' = [reqs EXCEPT ![r].pc = "llm", ![r].llmCalls = @ + 1]
  /\ UNCHANGED <<env, dbVars, parseVars, pageVars, detailVars, cardVars>>
  /\ UNCHANGED profileVars

\* lines 42-83: session, body and API key checks, then the call of the LLM
HandlerSession(r) ==
  /\ reqs[r].pc = "getSession"
  /\ IF reqs[r].sessionError \/ reqs[r].session = NoSession
     THEN Respond(r, ErrorResponse(401, "Unauthorized"))
     ELSE IF \/ typeof(reqs[r].body.userId) # "string"
             \/ typeof(reqs[r].body.topic) # "string"
             \/ typeof(reqs[r].body.skill) # "string"
     THEN Respond(r, ErrorResponse(400, "Invalid request body"))
     ELSE IF ~env.apiKey
     THEN Respond(r, ErrorResponse(500, "Server misconfiguration: missing OpenAI API key"))
     ELSE reqs' = [reqs EXCEPT ![r].pc = "llm", ![r].llmCalls = @ + 1]
  /\ UNCHANGED <<env, dbVars, parseVars, pageVars, detailVars, cardVars>>
  /\ UNCHANGED profileVars

\* lines 228-233: the call of the LLM rejects
LlmReject_retry(r) ==
  /\ reqs[r].pc = "llm"
  /\ IF reqs[r].llmCalls < 2
     THEN reqs' = [reqs EXCEPT ![r].llmCalls = @ + 1]
     ELSE reqs' = [reqs EXCEPT
            ![r].pc = "done", ![r].completion = "rejected",
            ![r].res = ErrorResponse(500, "Failed to generate gameplan. Please try again.")]
  /\ UNCHANGED <<env, dbVars, parseVars, pageVars, detailVars, cardVars>>
  /\ UNCHANGED profileVars

LlmReject(r) ==
  /\ reqs[r].pc = "llm"
  /\ reqs' = [reqs EXCEPT
       ![r].pc = "done", ![r].completion = "rejected",
       ![r].res = ErrorResponse(500, "Failed to generate gameplan. Please try again.")]
  /\ UNCHANGED <<env, dbVars, parseVars, pageVars, detailVars, cardVars>>
  /\ UNCHANGED profileVars

\* the owner written by the insert of lines 163-172
gameplanOwner_fromBody(req) == req.body.userId.value

gameplanOwner(req) == req.session

\* the handler answers after the call of the LLM has resolved with a reply
Replied(r, reply, response) ==
  reqs' = [reqs EXCEPT ![r].pc = "done", ![r].completion = "resolved",
                       ![r].raw = reply.text, ![r].res = response]

\* lines 85-172: the reply is parsed, validated and normalized, then the
\* insert into gameplans is called
LlmReply(r, reply) ==
  /\ reqs[r].pc = "llm"
  /\ LET p == parseReply(reply) IN
     IF p.outcome = "malformed"
     THEN Replied(r, reply, ErrorResponse(500, "Malformed gameplan data from OpenAI."))
     ELSE IF p.outcome = "throw" \/ p.value.isNull
     THEN Replied(r, reply, ErrorResponse(500, "Failed to generate gameplan. Please try again."))
     ELSE IF \/ ~isArray(p.value.goals)
             \/ \E k \in 1..Len(p.value.goals.items) :
                  typeof(p.value.goals.items[k]) # "string"
     THEN Replied(r, reply, ErrorResponse(500, "Malformed goals array from OpenAI."))
     ELSE IF ~isArray(p.value.flashcards)
     THEN Replied(r, reply, ErrorResponse(500, "Malformed flashcards array from OpenAI."))
     ELSE IF normalizeThrows(p.value.flashcards.items)
     THEN Replied(r, reply, ErrorResponse(500, "Failed to generate gameplan. Please try again."))
     ELSE reqs' = [reqs EXCEPT
            ![r].pc = "insertGameplan",
            ![r].completion = "resolved",
            ![r].raw = reply.text,
            ![r].gameplanInserts = @ + 1,
            ![r].goals = [k \in 1..Len(p.value.goals.items) |->
                           p.value.goals.items[k].value],
            ![r].normalizedFlashcards =
               [k \in 1..Len(p.value.flashcards.items) |->
                  normalizeFlashcard(p.value.flashcards.items[k])]]
  /\ UNCHANGED <<env, dbVars, parseVars, pageVars, detailVars, cardVars>>
  /\ UNCHANGED profileVars

OkResponse(req) ==
  [status |-> 200, error |-> "", gameplanId |-> req.gameplanId,
   goals |-> req.returnedGoals, flashcards |-> req.normalizedFlashcards]

\* lines 160-198: the insert into gameplans returns; with an id the insert
\* into goals is called, without one both other inserts are skipped
GameplanInsertReturn(r, ok) ==
  /\ reqs[r].pc = "insertGameplan"
  /\ IF ok
     THEN /\ dbGameplans' = Append(dbGameplans,
               [user_id |-> gameplanOwner(reqs[r]), topic |-> reqs[r].body.topic.value,
                skill |-> reqs[r].body.skill.value, completed |-> FALSE])
          /\ reqs' = [reqs EXCEPT ![r].gameplanId = Len(dbGameplans) + 1,
                                   ![r].pc = "insertGoals",
                                   ![r].goalInserts = @ + 1]
     ELSE /\ UNCHANGED dbGameplans
          /\ Respond(r, OkResponse(reqs[r]))
  /\ UNCHANGED <<env, dbGoals, dbFlashcards, parseVars, pageVars, detailVars, cardVars>>
  /\ UNCHANGED profileVars

\* lines 194-218: the insert into goals returns, the insert into flashcards
\* is called
GoalsInsertReturn(r, ok) ==
  /\ reqs[r].pc = "insertGoals"
  /\ IF ok
     THEN /\ dbGoals' = dbGoals \o
               [k \in 1..Len(reqs[r].goals) |->
                  [gameplan_id |-> reqs[r].gameplanId,
                   description |-> reqs[r].goals[k], status |-> "not-started"]]
          /\ reqs' = [reqs EXCEPT
               ![r].returnedGoals =
                  [k \in 1..Len(reqs[r].goals) |->
                     [id |-> Len(dbGoals) + k, description |-> reqs[r].goals[k]]],
               ![r].pc = "insertFlashcards",
               ![r].flashcardInserts = @ + 1]
     ELSE /\ UNCHANGED dbGoals
          /\ reqs' = [reqs EXCEPT ![r].pc = "insertFlashcards",
                                   ![r].flashcardInserts = @ + 1]
  /\ UNCHANGED <<env, dbGameplans, dbFlashcards, parseVars, pageVars, detailVars, cardVars>>
  /\ UNCHANGED profileVars

\* lines 216-227: the insert into flashcards returns, the handler answers 200
FlashcardsInsertReturn(r, ok) ==
  /\ reqs[r].pc = "insertFlashcards"
  /\ IF ok
     THEN dbFlashcards' = dbFlashcards \o
            [k \in 1..Len(reqs[r].normalizedFlashcards) |->
               [gameplan_id |-> reqs[r].gameplanId,
                content |-> reqs[r].normalizedFlashcards[k]]]
     ELSE UNCHANGED dbFlashcards
  /\ Respond(r, OkResponse(reqs[r]))
  /\ UNCHANGED <<env, dbGameplans, dbGoals, parseVars, pageVars, detailVars, cardVars>>
  /\ UNCHANGED profileVars

HandlerStep(replies) ==
  \E r \in 1..Len(reqs) :
    \/ HandlerReceive(r)
    \/ HandlerSession(r)
    \/ LlmReject(r)
    \/ \E reply \in replies : LlmReply(r, reply)
    \/ \E ok \in BOOLEAN : GameplanInsertReturn(r, ok)
    \/ \E ok \in BOOLEAN : GoalsInsertReturn(r, ok)
    \/ \E ok \in BOOLEAN : FlashcardsInsertReturn(r, ok)

ParseIdle ==
  /\ card = <<>>
  /\ content = <<>>
  /\ parsed = <<>>
  /\ parsedDetail = <<>>
  /\ ppc = [chat |-> FALSE, detail |-> FALSE]

InitApi ==
  /\ ParseIdle
  /\ env \in [apiKey : BOOLEAN]
  /\ reqs = <<>>
  /\ dbGameplans = <<>>
  /\ dbGoals = <<>>
  /\ dbFlashcards = <<>>
  /\ PageInit
  /\ CardIdle
  /\ ProfileIdle
  /\ DetailIdle

NextApi ==
  \/ \E in \in RequestInputs : DirectRequest(in)
  \/ HandlerStep(LlmReplies)

SpecApi == InitApi /\ [][NextApi]_vars

(***************************************************************************)
(* The chat page (chat.tsx, ChatPage)                                      *)
(***************************************************************************)
PageUser == "u1"
Topics == {"Leadership"}
skillAreaMap == [t \in Topics |-> {"DEI"}]
Statuses == {"not-started", "in-progress", "completed"}
InputTexts == {<<" ">>, <<"h", "i">>}
ChatOutcomes == {"botReply", "error", "reject"}

Text(sender, text) ==
  [sender |-> sender, type |-> "text", text |-> text, flashcards |-> <<>>]

\* the texts of the bot messages that report a failure: "Error: ..." and
\* "Sorry, ..."
IsErrorMessage(m) == m.sender = "bot" /\ m.type = "text" /\ m.text \in {"Error", "Sorry"}

RECURSIVE errorCount(_)
errorCount(msgs) ==
  IF msgs = <<>> THEN 0
  ELSE (IF IsErrorMessage(Head(msgs)) THEN 1 ELSE 0) + errorCount(Tail(msgs))

Op(kind, arg, id) ==
  [kind |-> kind, arg |-> arg, id |-> id, topic |-> selectedTopic,
   skill |-> selectedSkill, result |-> "sent"]

removeAt(seq, i) == SubSeq(seq, 1, i - 1) \o SubSeq(seq, i + 1, Len(seq))

\* line 634: the page renders its controls
Rendered == stage # "loading" /\ ~profileLoading

\* lines 178-193: the profile row is found
ProfileLoaded ==
  /\ stage = "loading"
  /\ stage' = "selectTopic"
  /\ profileLoading' = FALSE
  /\ UNCHANGED <<selectedTopic, selectedSkill, messages, loadingFetch, currentGoals,
                 flashcardsSubmitted, currentGameplanId, showCompletionButton, ops,
                 acts, apiActs, apiSent>>
  /\ UNCHANGED <<apiVars, dbVars, parseVars, detailVars, cardVars>>
  /\ UNCHANGED profileVars

\* lines 170-196: the effect depends on [user, router]; when the session is
\* refreshed useUser returns a new user object, the effect runs again and
\* fetchProfile finds the profile row once more
ProfileReloaded ==
  /\ stage # "loading"
  /\ acts.rechecks > 0
  /\ stage' = "selectTopic"
  /\ profileLoading' = FALSE
  /\ acts' = [acts EXCEPT !.rechecks = @ - 1]
  /\ UNCHANGED <<selectedTopic, selectedSkill, messages, loadingFetch, currentGoals,
                 flashcardsSubmitted, currentGameplanId, showCompletionButton, ops,
                 apiActs, apiSent>>
  /\ UNCHANGED <<apiVars, dbVars, parseVars, detailVars, cardVars>>
  /\ UNCHANGED profileVars

\* lines 208-227: handleTopicSelect up to its fetch
TopicSelect(topic) ==
  /\ Rendered /\ stage = "selectTopic" /\ ~loadingFetch
  /\ selectedTopic' = topic
  /\ messages' = Append(messages, Text("user", "topic"))
  /\ loadingFetch' = TRUE
  /\ ops' = Append(ops, Op("topic", topic, 0))
  /\ UNCHANGED acts /\ apiActs' = apiActs + 1 /\ apiSent' = apiSent + 1
  /\ UNCHANGED <<stage, profileLoading, selectedSkill, currentGoals, flashcardsSubmitted,
                 currentGameplanId, showCompletionButton>>
  /\ UNCHANGED <<apiVars, dbVars, parseVars, detailVars, cardVars>>
  /\ UNCHANGED profileVars

\* lines 255-274: handleSkillSelect up to its fetch
SkillSelect(skill) ==
  /\ Rendered /\ stage = "selectSkill" /\ selectedTopic # "" /\ ~loadingFetch
  /\ skill \in skillAreaMap[selectedTopic]
  /\ selectedSkill' = skill
  /\ messages' = Append(messages, Text("user", "skill"))
  /\ loadingFetch' = TRUE
  /\ ops' = Append(ops, Op("skill", skill, 0))
  /\ UNCHANGED acts /\ apiActs' = apiActs + 1 /\ apiSent' = apiSent + 1
  /\ UNCHANGED <<stage, profileLoading, selectedTopic, currentGoals, flashcardsSubmitted,
                 currentGameplanId, showCompletionButton>>
  /\ UNCHANGED <<apiVars, dbVars, parseVars, detailVars, cardVars>>
  /\ UNCHANGED profileVars

\* lines 337-357: handleChatSubmit up to its fetch; blank input returns early
ChatSubmit(inputText) ==
  /\ Rendered /\ stage = "chat" /\ ~loadingFetch
  /\ trim(inputText) # <<>>
  /\ acts.chats > 0
  /\ messages' = Append(messages, Text("user", "userMsg"))
  /\ loadingFetch' = TRUE
  /\ ops' = Append(ops, Op("chat", "", 0))
  /\ acts' = [acts EXCEPT !.chats = @ - 1] /\ apiActs' = apiActs + 1 /\ apiSent' = apiSent + 1
  /\ UNCHANGED <<stage, profileLoading, selectedTopic, selectedSkill, currentGoals,
                 flashcardsSubmitted, currentGameplanId, showCompletionButton>>
  /\ UNCHANGED <<apiVars, dbVars, parseVars, detailVars, cardVars>>
  /\ UNCHANGED profileVars

\* the messages of a handler whose catch block appends nothing
chatReturnMessages_silentReject(kind, outcome) ==
  (IF outcome = "botReply" THEN <<Text("bot", "botReply")>>
   ELSE IF outcome = "error" THEN <<Text("bot", "Error")>>
   ELSE <<>>)
  \o (IF kind = "skill" /\ outcome # "reject"
      THEN <<Text("bot", "Would you like me to create a week-long game plan")>>
      ELSE <<>>)

\* the messages a handler of /api/chat appends when its fetch has returned
chatReturnMessages(kind, outcome) ==
  (IF outcome = "botReply" THEN <<Text("bot", "botReply")>>
   ELSE IF outcome = "error" THEN <<Text("bot", "Error")>>
   ELSE <<Text("bot", "Sorry")>>)
  \o (IF kind = "skill" /\ outcome # "reject"
      THEN <<Text("bot", "Would you like me to create a week-long game plan")>>
      ELSE <<>>)

\* lines 228-249, 275-303, 358-377: the fetch of /api/chat returns a reply,
\* returns an error body, or rejects
ChatFetchReturn(i, outcome) ==
  /\ ops[i].kind \in {"topic", "skill", "chat"}
  /\ messages' = messages \o chatReturnMessages(ops[i].kind, outcome)
  /\ stage' = (IF ops[i].kind = "topic" THEN "selectSkill"
                ELSE IF ops[i].kind = "skill" THEN "confirmGameplan"
                ELSE stage)
  /\ loadingFetch' = FALSE
  /\ ops' = removeAt(ops, i)
  /\ UNCHANGED <<profileLoading, selectedTopic, selectedSkill, currentGoals,
                 flashcardsSubmitted, currentGameplanId, showCompletionButton,
                 acts, apiActs, apiSent>>
  /\ UNCHANGED <<apiVars, dbVars, parseVars, detailVars, cardVars>>
  /\ UNCHANGED profileVars

\* lines 309-313: handleGameplanDecision appends the answer and starts the timer
GameplanDecision(decision) ==
  /\ Rendered /\ stage = "confirmGameplan" /\ ~loadingFetch
  /\ acts.decisions > 0
  /\ messages' = Append(messages, Text("user", decision))
  /\ ops' = Append(ops, Op("timer", decision, 0))
  /\ acts' = [acts EXCEPT !.decisions = @ - 1]
  /\ apiActs' = apiActs + (IF decision = "yes" THEN 1 ELSE 0)
  /\ UNCHANGED <<stage, profileLoading, selectedTopic, selectedSkill, loadingFetch,
                 currentGoals, flashcardsSubmitted, currentGameplanId,
                 showCompletionButton, apiSent>>
  /\ UNCHANGED <<apiVars, dbVars, parseVars, detailVars, cardVars>>
  /\ UNCHANGED profileVars

\* lines 313-331 and 383-395: the timer fires; "yes" runs generateGameplan up to
\* its fetch, whose cookies hold the session of the page user or none any more
TimerFire(i, session) ==
  /\ ops[i].kind = "timer"
  /\ IF ops[i].arg = "yes"
     THEN /\ messages' = Append(messages, Text("bot", "Great! Generating"))
          /\ loadingFetch' = TRUE
          /\ reqs' = Append(reqs, NewRequest(
               [method |-> "POST", session |-> session, sessionError |-> FALSE,
                body |-> [userId |-> Str(PageUser), topic |-> Str(ops[i].topic),
                          skill |-> Str(ops[i].skill)]], "page"))
          /\ ops' = [ops EXCEPT ![i] = [@ EXCEPT !.kind = "gameplan",
                                                  !.id = Len(reqs) + 1]]
          /\ apiSent' = apiSent + 1
          /\ UNCHANGED stage
     ELSE /\ messages' = Append(messages, Text("bot", "No problem"))
          /\ stage' = "chat"
          /\ ops' = removeAt(ops, i)
          /\ UNCHANGED <<loadingFetch, reqs, apiSent>>
  /\ UNCHANGED <<profileLoading, selectedTopic, selectedSkill, currentGoals,
                 flashcardsSubmitted, currentGameplanId, showCompletionButton,
                 acts, apiActs>>
  /\ UNCHANGED <<env, dbVars, parseVars, detailVars, cardVars>>
  /\ UNCHANGED profileVars

\* line 398: "goals" in json && "flashcards" in json && "gameplanId" in json;
\* JSON.stringify leaves out a gameplanId that is undefined
IsGameplanJson(res) == res.status = 200 /\ res.gameplanId # Undefined

\* lines 397-461: the fetch of /api/gameplan returns the response of the handler
GameplanFetchReturn(i) ==
  /\ ops[i].kind = "gameplan"
  /\ reqs[ops[i].id].pc = "done"
  /\ LET res == reqs[ops[i].id].res IN
     IF IsGameplanJson(res)
     THEN /\ messages' = messages \o
               << Text("bot", "Here are your goals for the week:"),
                  [sender |-> "bot", type |-> "flashcards", text |-> "",
                   flashcards |-> [k \in 1..Len(res.flashcards) |->
                                     parseFlashcardContent(res.flashcards[k])],
                   gameplanId |-> res.gameplanId] >>
          /\ currentGoals' = [k \in 1..Len(res.goals) |->
                                [id |-> res.goals[k].id,
                                 description |-> res.goals[k].description,
                                 status |-> "not-started"]]
          /\ flashcardsSubmitted' = [k \in 1..Len(res.flashcards) |-> "false"]
          /\ currentGameplanId' = res.gameplanId
          /\ showCompletionButton' = TRUE
     ELSE /\ messages' = Append(messages, Text("bot", "Error"))
          /\ UNCHANGED <<currentGoals, flashcardsSubmitted, currentGameplanId,
                         showCompletionButton>>
  /\ stage' = "chat"
  /\ loadingFetch' = FALSE
  /\ ops' = removeAt(ops, i)
  /\ UNCHANGED <<profileLoading, selectedTopic, selectedSkill, acts, apiActs, apiSent>>
  /\ UNCHANGED <<apiVars, dbVars, parseVars, detailVars, cardVars>>
  /\ UNCHANGED profileVars

\* lines 450-460: the fetch of /api/gameplan rejects: the request does not
\* reach the handler, or the response of the handler does not reach the page
GameplanFetchReject(i) ==
  /\ ops[i].kind = "gameplan"
  /\ reqs[ops[i].id].pc \in {"sent", "done"}
  /\ messages' = Append(messages, Text("bot", "Sorry"))
  /\ stage' = "chat"
  /\ loadingFetch' = FALSE
  /\ reqs' = [reqs EXCEPT ![ops[i].id].pc = IF @ = "sent" THEN "lost" ELSE @]
  /\ ops' = removeAt(ops, i)
  /\ UNCHANGED <<profileLoading, selectedTopic, selectedSkill, currentGoals,
                 flashcardsSubmitted, currentGameplanId, showCompletionButton,
                 acts, apiActs, apiSent>>
  /\ UNCHANGED <<env, dbVars, parseVars, detailVars, cardVars>>
  /\ UNCHANGED profileVars

\* lines 571-579 and 664-677: the select of a goal calls updateGoalStatus
UpdateGoalStatus(g, newStatus) ==
  /\ Rendered
  /\ g \in 1..Len(currentGoals)
  /\ newStatus \in Statuses /\ newStatus # currentGoals[g].status
  /\ acts.goalUpdates > 0
  /\ ops' = Append(ops, Op("goalUpdate", newStatus, currentGoals[g].id))
  /\ acts' = [acts EXCEPT !.goalUpdates = @ - 1]
  /\ UNCHANGED <<stage, profileLoading, selectedTopic, selectedSkill, messages,
                 loadingFetch, currentGoals, flashcardsSubmitted, currentGameplanId,
                 showCompletionButton, apiActs, apiSent>>
  /\ UNCHANGED <<apiVars, dbVars, parseVars, detailVars, cardVars>>
  /\ UNCHANGED profileVars

\* the data store runs update({status}).eq("id", goalId), or fails
DbGoalUpdate(i, ok) ==
  /\ ops[i].kind = "goalUpdate" /\ ops[i].result = "sent"
  /\ IF ok
     THEN /\ dbGoals' = [k \in 1..Len(dbGoals) |->
                           IF k = ops[i].id THEN [dbGoals[k] EXCEPT !.status = ops[i].arg]
                           ELSE dbGoals[k]]
          /\ ops' = [ops EXCEPT ![i].result = "ok"]
     ELSE /\ UNCHANGED dbGoals
          /\ ops' = [ops EXCEPT ![i].result = "error"]
  /\ UNCHANGED <<stage, profileLoading, selectedTopic, selectedSkill, messages,
                 loadingFetch, currentGoals, flashcardsSubmitted, currentGameplanId,
                 showCompletionButton, acts, apiActs, apiSent>>
  /\ UNCHANGED <<apiVars, dbGameplans, dbFlashcards, parseVars, detailVars, cardVars>>
  /\ UNCHANGED profileVars

\* lines 581-599: updateGoalStatus after its await
GoalUpdateReturn(i) ==
  /\ ops[i].kind = "goalUpdate" /\ ops[i].result # "sent"
  /\ IF ops[i].result = "error"
     THEN /\ messages' = Append(messages, Text("bot", "Sorry"))
          /\ UNCHANGED currentGoals
     ELSE /\ currentGoals' = [k \in 1..Len(currentGoals) |->
                                IF currentGoals[k].id = ops[i].id
                                THEN [currentGoals[k] EXCEPT !.status = ops[i].arg]
                                ELSE currentGoals[k]]
          /\ UNCHANGED messages
  /\ ops' = removeAt(ops, i)
  /\ UNCHANGED <<stage, profileLoading, selectedTopic, selectedSkill, loadingFetch,
                 flashcardsSubmitted, currentGameplanId, showCompletionButton,
                 acts, apiActs, apiSent>>
  /\ UNCHANGED <<apiVars, dbVars, parseVars, detailVars, cardVars>>
  /\ UNCHANGED profileVars

\* lines 604-610 and 712-719: a card of a flashcards message is submitted;
\* writing past the end of the array leaves empty slots before the index.
\* The flag is the boolean true; the model writes "true" when the card belongs
\* to the current gameplan and "trueOther" when it belongs to another one
\* (gameplanId of a message records the gameplan its cards were created for).
MarkFlashcardSubmitted(m, j) ==
  /\ Rendered
  /\ m \in 1..Len(messages) /\ messages[m].type = "flashcards"
  /\ j \in 1..Len(messages[m].flashcards)
  /\ acts.submits > 0
  /\ flashcardsSubmitted' =
       [k \in 1..(IF j > Len(flashcardsSubmitted) THEN j ELSE Len(flashcardsSubmitted)) |->
          IF k = j
            THEN (IF \/ messages[m].gameplanId = currentGameplanId
                     \/ (k <= Len(flashcardsSubmitted) /\ flashcardsSubmitted[k] = "true")
                    THEN "true" ELSE "trueOther")
          ELSE IF k > Len(flashcardsSubmitted) THEN "empty"
          ELSE flashcardsSubmitted[k]]
  /\ acts' = [acts EXCEPT !.submits = @ - 1]
  /\ UNCHANGED <<stage, profileLoading, selectedTopic, selectedSkill, messages,
                 loadingFetch, currentGoals, currentGameplanId, showCompletionButton,
                 ops, apiActs, apiSent>>
  /\ UNCHANGED <<apiVars, dbVars, parseVars, detailVars, cardVars>>
  /\ UNCHANGED profileVars

\* lines 615-629; Array.prototype.every skips empty slots
allGoalsCompleted ==
  Len(currentGoals) > 0 /\ \A k \in 1..Len(currentGoals) : currentGoals[k].status = "completed"
allFlashcardsDone ==
  Len(flashcardsSubmitted) > 0
    /\ \A k \in 1..Len(flashcardsSubmitted) :
         flashcardsSubmitted[k] \in {"true", "trueOther", "empty"}
canComplete == allGoalsCompleted /\ allFlashcardsDone

\* lines 528-538 and 728-733: the completion button calls handleCompleteGameplan
CompleteGameplan ==
  /\ Rendered /\ showCompletionButton /\ canComplete
  /\ currentGameplanId # 0
  /\ acts.completes > 0
  /\ ops' = Append(ops, Op("complete", "", currentGameplanId))
  /\ acts' = [acts EXCEPT !.completes = @ - 1]
  /\ UNCHANGED <<stage, profileLoading, selectedTopic, selectedSkill, messages,
                 loadingFetch, currentGoals, flashcardsSubmitted, currentGameplanId,
                 showCompletionButton, apiActs, apiSent>>
  /\ UNCHANGED <<apiVars, dbVars, parseVars, detailVars, cardVars>>
  /\ UNCHANGED profileVars

\* the data store runs update({completed: true}).eq("id", id), or fails
DbComplete(i, ok) ==
  /\ ops[i].kind = "complete" /\ ops[i].result = "sent"
  /\ IF ok
     THEN /\ dbGameplans' = [k \in 1..Len(dbGameplans) |->
                               IF k = ops[i].id
                               THEN [dbGameplans[k] EXCEPT !.completed = TRUE]
                               ELSE dbGameplans[k]]
          /\ ops' = [ops EXCEPT ![i].result = "ok"]
     ELSE /\ UNCHANGED dbGameplans
          /\ ops' = [ops EXCEPT ![i].result = "error"]
  /\ UNCHANGED <<stage, profileLoading, selectedTopic, selectedSkill, messages,
                 loadingFetch, currentGoals, flashcardsSubmitted, currentGameplanId,
                 showCompletionButton, acts, apiActs, apiSent>>
  /\ UNCHANGED <<apiVars, dbGoals, dbFlashcards, parseVars, detailVars, cardVars>>
  /\ UNCHANGED profileVars

\* a handler that resets the page whatever the update has returned
CompleteReturn_resetAlways(i) ==
  /\ ops[i].kind = "complete" /\ ops[i].result # "sent"
  /\ messages' = <<Text("bot", IF ops[i].result = "error" THEN "Sorry"
                                ELSE "Congratulations")>>
  /\ currentGameplanId' = 0
  /\ showCompletionButton' = FALSE
  /\ currentGoals' = <<>>
  /\ flashcardsSubmitted' = <<>>
  /\ selectedTopic' = ""
  /\ selectedSkill' = ""
  /\ stage' = "selectTopic"
  /\ ops' = removeAt(ops, i)
  /\ UNCHANGED <<profileLoading, loadingFetch, acts, apiActs, apiSent>>
  /\ UNCHANGED <<apiVars, dbVars, parseVars, detailVars, cardVars>>
  /\ UNCHANGED profileVars

\* lines 540-566: handleCompleteGameplan after its await
CompleteReturn(i) ==
  /\ ops[i].kind = "complete" /\ ops[i].result # "sent"
  /\ IF ops[i].result = "error"
     THEN /\ messages' = Append(messages, Text("bot", "Sorry"))
          /\ UNCHANGED <<stage, selectedTopic, selectedSkill, currentGoals,
                         flashcardsSubmitted, currentGameplanId, showCompletionButton>>
     ELSE /\ messages' = <<Text("bot", "Congratulations")>>
          /\ currentGameplanId' = 0
          /\ showCompletionButton' = FALSE
          /\ currentGoals' = <<>>
          /\ flashcardsSubmitted' = <<>>
          /\ selectedTopic' = ""
          /\ selectedSkill' = ""
          /\ stage' = "selectTopic"
  /\ ops' = removeAt(ops, i)
  /\ UNCHANGED <<profileLoading, loadingFetch, acts, apiActs, apiSent>>
  /\ UNCHANGED <<apiVars, dbVars, parseVars, detailVars, cardVars>>
  /\ UNCHANGED profileVars

PageStep ==
  \/ ProfileLoaded
  \/ \E topic \in Topics : TopicSelect(topic)
  \/ \E skill \in UNION {skillAreaMap[t] : t \in Topics} : SkillSelect(skill)
  \/ \E text \in InputTexts : ChatSubmit(text)
  \/ \E decision \in {"yes", "no"} : GameplanDecision(decision)
  \/ \E g \in 1..Len(currentGoals), st \in Statuses : UpdateGoalStatus(g, st)
  \/ \E m \in 1..Len(messages), j \in 1..2 : MarkFlashcardSubmitted(m, j)
  \/ CompleteGameplan
  \/ \E i \in 1..Len(ops) :
       \/ \E outcome \in ChatOutcomes : ChatFetchReturn(i, outcome)
       \/ \E session \in Users \cup {NoSession} : TimerFire(i, session)
       \/ GameplanFetchReturn(i)
       \/ GameplanFetchReject(i)
       \/ \E ok \in BOOLEAN : DbGoalUpdate(i, ok)
       \/ GoalUpdateReturn(i)
       \/ \E ok \in BOOLEAN : DbComplete(i, ok)
       \/ CompleteReturn(i)

(***************************************************************************)
(* Spec: the chat page of one signed-in user whose session is not          *)
(* refreshed while the page is open, the handler of /api/gameplan and the  *)
(* data store                                                              *)
(***************************************************************************)
Init ==
  /\ ParseIdle
  /\ env = [apiKey |-> TRUE]
  /\ reqs = <<>>
  /\ dbGameplans = <<>>
  /\ dbGoals = <<>>
  /\ dbFlashcards = <<>>
  /\ PageInit
  /\ CardIdle
  /\ ProfileIdle
  /\ DetailIdle

\* the replies of the LLM to the requests of the page: one goal and one
\* flashcard in prose around the JSON object, or no JSON at all
PageReplies ==
  {[text |-> <<"x", "{", "G", "F", "}">>, goals |-> JArray(<<Str("g1")>>),
    flashcards |-> JArray(<<FcObject>>)],
   [text |-> <<"x">>, goals |-> JUndefined, flashcards |-> JUndefined]}

Next ==
  \/ PageStep
  \/ HandlerStep(PageReplies)

Spec == Init /\ [][Next]_vars

(***************************************************************************)
(* The portfolio detail page (portfolio/[id].tsx, GameplanDetailPage)      *)
(***************************************************************************)
DetailPath == "/portfolio/[id]"
CompletedPath == "/chat?completed=true"

\* lines 281-283: the option values of the status select
DetailStatuses == {"pending", "in-progress", "completed"}

\* the option a select shows for a value: the browser shows the first option
\* when no option has the value
shownStatus(status) == IF status \in DetailStatuses THEN status ELSE "pending"

\* lines 55-75: the nested select goals(id, description, status, start_date)
RECURSIVE goalsFrom(_, _)
goalsFrom(id, k) ==
  IF k > Len(dbGoals) THEN <<>>
  ELSE (IF dbGoals[k].gameplan_id = id
        THEN <<[id |-> k, description |-> dbGoals[k].description,
                status |-> dbGoals[k].status]>>
        ELSE <<>>) \o goalsFrom(id, k + 1)

RECURSIVE flashcardsFrom(_, _)
flashcardsFrom(id, k) ==
  IF k > Len(dbFlashcards) THEN <<>>
  ELSE (IF dbFlashcards[k].gameplan_id = id
        THEN <<parseFlashcardContentDetail(dbFlashcards[k].content)>>
        ELSE <<>>) \o flashcardsFrom(id, k + 1)

DetailOp(kind, ids, arg) ==
  [kind |-> kind, ids |-> ids, arg |-> arg, results |-> [k \in 1..Len(ids) |-> "sent"]]

\* a component that is not mounted any more ignores the state updates of its
\* handlers
DetailMounted == router.pathname = DetailPath

\* line 253 and 268: the controls of the gameplan are rendered
DetailRendered == DetailMounted /\ ~loading /\ gameplan # <<>>

\* lines 53-106: fetchDetail after its await
FetchDetailReturn(i, ok) ==
  /\ detailOps[i].kind = "fetch"
  /\ DetailMounted
  /\ IF ~ok
     THEN /\ errorMsg' = "Failed to load gameplan details."
          /\ UNCHANGED <<gameplan, goals, flashcards, detailSubmitted>>
     ELSE IF router.id \notin 1..Len(dbGameplans)
     THEN /\ errorMsg' = "Gameplan not found."
          /\ UNCHANGED <<gameplan, goals, flashcards, detailSubmitted>>
     ELSE /\ gameplan' = [topic |-> dbGameplans[router.id].topic,
                          skill |-> dbGameplans[router.id].skill]
          /\ goals' = goalsFrom(router.id, 1)
          /\ flashcards' = flashcardsFrom(router.id, 1)
          /\ detailSubmitted' = [k \in 1..Len(flashcardsFrom(router.id, 1)) |-> FALSE]
          /\ UNCHANGED errorMsg
  /\ loading' = FALSE
  /\ detailOps' = removeAt(detailOps, i)
  /\ UNCHANGED <<router, updatingGoalId, markingCompleted, detailActs>>
  /\ UNCHANGED <<apiVars, dbVars, parseVars, pageVars, cardVars>>
  /\ UNCHANGED profileVars

\* lines 184-189 and 274-285: the select of a goal calls updateGoalStatus
DetailUpdateGoalStatus(g, newStatus) ==
  /\ DetailRendered
  /\ g \in 1..Len(goals)
  /\ updatingGoalId # goals[g].id
  /\ newStatus \in DetailStatuses /\ newStatus # shownStatus(goals[g].status)
  /\ detailActs.updates < MaxDetailUpdates
  /\ updatingGoalId' = goals[g].id
  /\ detailOps' = Append(detailOps, DetailOp("update", <<goals[g].id>>, newStatus))
  /\ detailActs' = [detailActs EXCEPT !.updates = @ + 1]
  /\ UNCHANGED <<router, loading, errorMsg, gameplan, goals, flashcards,
                 markingCompleted, detailSubmitted>>
  /\ UNCHANGED <<apiVars, dbVars, parseVars, pageVars, cardVars>>
  /\ UNCHANGED profileVars

\* the data store runs one update({status}).eq("id", goalId), or fails
DbDetailUpdate(i, k, ok) ==
  /\ detailOps[i].kind \in {"update", "markAll"}
  /\ k \in 1..Len(detailOps[i].ids)
  /\ detailOps[i].results[k] = "sent"
  /\ IF ok
     THEN /\ dbGoals' = [n \in 1..Len(dbGoals) |->
                           IF n = detailOps[i].ids[k]
                           THEN [dbGoals[n] EXCEPT !.status = detailOps[i].arg]
                           ELSE dbGoals[n]]
          /\ detailOps' = [detailOps EXCEPT ![i].results[k] = "ok"]
     ELSE /\ UNCHANGED dbGoals
          /\ detailOps' = [detailOps EXCEPT ![i].results[k] = "error"]
  /\ UNCHANGED <<router, loading, errorMsg, gameplan, goals, flashcards,
                 updatingGoalId, markingCompleted, detailSubmitted, detailActs>>
  /\ UNCHANGED <<apiVars, dbGameplans, dbFlashcards, parseVars, pageVars, cardVars>>
  /\ UNCHANGED profileVars

\* lines 190-200: updateGoalStatus after its await
DetailUpdateReturn(i) ==
  /\ detailOps[i].kind = "update" /\ detailOps[i].results[1] # "sent"
  /\ IF ~DetailMounted
     THEN UNCHANGED <<errorMsg, goals, updatingGoalId>>
     ELSE /\ IF detailOps[i].results[1] = "error"
             THEN /\ errorMsg' = "Failed to update goal status."
                  /\ UNCHANGED goals
             ELSE /\ goals' = [n \in 1..Len(goals) |->
                                 IF goals[n].id = detailOps[i].ids[1]
                                 THEN [goals[n] EXCEPT !.status = detailOps[i].arg]
                                 ELSE goals[n]]
                  /\ UNCHANGED errorMsg
          /\ updatingGoalId' = 0
  /\ detailOps' = removeAt(detailOps, i)
  /\ UNCHANGED <<router, loading, gameplan, flashcards, markingCompleted,
                 detailSubmitted, detailActs>>
  /\ UNCHANGED <<apiVars, dbVars, parseVars, pageVars, cardVars>>
  /\ UNCHANGED profileVars

\* lines 203-210 and 307-309: the button calls handleMarkCompleted, which sends
\* one update per goal of the page
MarkCompleted ==
  /\ DetailRendered
  /\ ~markingCompleted
  /\ detailActs.marks < MaxMarks
  /\ markingCompleted' = TRUE
  /\ detailOps' = Append(detailOps,
       DetailOp("markAll", [n \in 1..Len(goals) |-> goals[n].id], "completed"))
  /\ detailActs' = [detailActs EXCEPT !.marks = @ + 1]
  /\ UNCHANGED <<router, loading, errorMsg, gameplan, goals, flashcards,
                 updatingGoalId, detailSubmitted>>
  /\ UNCHANGED <<apiVars, dbVars, parseVars, pageVars, cardVars>>
  /\ UNCHANGED profileVars

\* a handler that also sets the goals of the page to completed
MarkCompletedReturn_setGoals(i) ==
  /\ detailOps[i].kind = "markAll"
  /\ \A k \in 1..Len(detailOps[i].ids) : detailOps[i].results[k] # "sent"
  /\ IF ~DetailMounted
     THEN UNCHANGED <<errorMsg, markingCompleted, router, goals>>
     ELSE IF \E k \in 1..Len(detailOps[i].ids) : detailOps[i].results[k] = "error"
     THEN /\ errorMsg' = "Failed to mark all goals as completed."
          /\ markingCompleted' = FALSE
          /\ UNCHANGED <<router, goals>>
     ELSE /\ router' = [router EXCEPT !.pathname = CompletedPath]
          /\ goals' = [n \in 1..Len(goals) |-> [goals[n] EXCEPT !.status = "completed"]]
          /\ UNCHANGED <<errorMsg, markingCompleted>>
  /\ detailOps' = removeAt(detailOps, i)
  /\ UNCHANGED <<loading, gameplan, flashcards, updatingGoalId,
                 detailSubmitted, detailActs>>
  /\ UNCHANGED <<apiVars, dbVars, parseVars, pageVars, cardVars>>
  /\ UNCHANGED profileVars

\* lines 210-220: handleMarkCompleted after Promise.all has every result
MarkCompletedReturn(i) ==
  /\ detailOps[i].kind = "markAll"
  /\ \A k \in 1..Len(detailOps[i].ids) : detailOps[i].results[k] # "sent"
  /\ IF ~DetailMounted
     THEN UNCHANGED <<errorMsg, markingCompleted, router>>
     ELSE IF \E k \in 1..Len(detailOps[i].ids) : detailOps[i].results[k] = "error"
     THEN /\ errorMsg' = "Failed to mark all goals as completed."
          /\ markingCompleted' = FALSE
          /\ UNCHANGED router
     ELSE /\ router' = [router EXCEPT !.pathname = CompletedPath]
          /\ UNCHANGED <<errorMsg, markingCompleted>>
  /\ detailOps' = removeAt(detailOps, i)
  /\ UNCHANGED <<loading, gameplan, goals, flashcards, updatingGoalId,
                 detailSubmitted, detailActs>>
  /\ UNCHANGED <<apiVars, dbVars, parseVars, pageVars, cardVars>>
  /\ UNCHANGED profileVars

\* lines 223-229: handleFlashcardComplete
HandleFlashcardComplete(index) ==
  /\ DetailRendered
  /\ index \in 1..Len(flashcards)
  /\ ~detailSubmitted[index]
  /\ detailSubmitted' = [detailSubmitted EXCEPT ![index] = TRUE]
  /\ UNCHANGED <<router, loading, errorMsg, gameplan, goals, flashcards,
                 updatingGoalId, markingCompleted, detailOps, detailActs>>
  /\ UNCHANGED <<apiVars, dbVars, parseVars, pageVars, cardVars>>
  /\ UNCHANGED profileVars

DetailStep ==
  \/ \E g \in 1..Len(goals), st \in DetailStatuses : DetailUpdateGoalStatus(g, st)
  \/ MarkCompleted
  \/ \E index \in 1..Len(flashcards) : HandleFlashcardComplete(index)
  \/ \E i \in 1..Len(detailOps) :
       \/ \E ok \in BOOLEAN : FetchDetailReturn(i, ok)
       \/ \E k \in 1..Len(detailOps[i].ids), ok \in BOOLEAN : DbDetailUpdate(i, k, ok)
       \/ DetailUpdateReturn(i)
       \/ MarkCompletedReturn(i)

(***************************************************************************)
(* SpecDetail: a signed-in client posts to /api/gameplan, the detail page  *)
(* of a gameplan of the data store is open                                 *)
(***************************************************************************)
DetailRequests ==
  [method : {"POST"}, session : {"u1"}, sessionError : {FALSE},
   body : {[userId |-> Str("u1"), topic |-> Str("Leadership"), skill |-> Str("DEI")]}]

\* the replies of the LLM: two goals and one flashcard, or no JSON at all
DetailReplies ==
  {[text |-> BracedText, goals |-> GoalsOk, flashcards |-> JArray(<<FcObject>>)],
   [text |-> <<"x">>, goals |-> JUndefined, flashcards |-> JUndefined]}

InitDetail ==
  /\ ParseIdle
  /\ env = [apiKey |-> TRUE]
  /\ reqs = <<>>
  /\ dbGameplans = <<>>
  /\ dbGoals = <<>>
  /\ dbFlashcards = <<>>
  /\ PageInit
  /\ CardIdle
  /\ ProfileIdle
  /\ router \in [pathname : {DetailPath}, id : 1..MaxRequests]
  /\ loading = TRUE
  /\ errorMsg = ""
  /\ gameplan = <<>>
  /\ goals = <<>>
  /\ flashcards = <<>>
  /\ updatingGoalId = 0
  /\ markingCompleted = FALSE
  /\ detailSubmitted = <<>>
  /\ detailOps = <<DetailOp("fetch", <<>>, "")>>
  /\ detailActs = [updates |-> 0, marks |-> 0]

NextDetail ==
  \/ \E in \in DetailRequests : DirectRequest(in)
  \/ HandlerStep(DetailReplies)
  \/ DetailStep

SpecDetail == InitDetail /\ [][NextDetail]_vars

(***************************************************************************)
(* Properties of the handler of /api/gameplan (SpecApi)                    *)
(***************************************************************************)
NoValidSession(req) == req.sessionError \/ req.session = NoSession

Answered(req, code, msg) ==
  req.pc = "done" /\ req.res.status = code /\ req.res.error = msg

\* C3 as stated: every request without a valid session is answered 401
\* 'Unauthorized', whatever its method, body or server configuration.
C3_AlwaysUnauthorized ==
  \A r \in 1..Len(reqs) :
    (NoValidSession(reqs[r]) /\ reqs[r].pc = "done")
      => Answered(reqs[r], 401, "Unauthorized")

\* C3: for a request without a valid session the LLM is never called; such a
\* POST request is answered 401 'Unauthorized' whatever its body or the server
\* configuration, and such a request of another method is answered 405.
C3_Unauthorized ==
  \A r \in 1..Len(reqs) :
    NoValidSession(reqs[r]) =>
      /\ reqs[r].llmCalls = 0
      /\ reqs[r].completion = "none"
      /\ reqs[r].pc = "done" =>
           IF reqs[r].method = "POST"
           THEN Answered(reqs[r], 401, "Unauthorized")
           ELSE Answered(reqs[r], 405, "Method GET Not Allowed")

C3_Witness ==
  \E r \in 1..Len(reqs) :
    /\ NoValidSession(reqs[r])
    /\ reqs[r].method = "POST"
    /\ typeof(reqs[r].body.userId) # "string"
    /\ ~env.apiKey
    /\ Answered(reqs[r], 401, "Unauthorized")

\* C4: when the LLM reply is not valid JSON as a whole, the handler parses the
\* substring from the first '{' to the last '}' and, if that parses, continues
\* as for a valid reply; whenever neither the whole reply nor the extracted
\* substring parses, the request ends with the 500 error 'Malformed gameplan
\* data from OpenAI.'.
C4_FallbackOrMalformed ==
  \A r \in 1..Len(reqs) :
    (reqs[r].completion = "resolved" /\ reqs[r].pc = "done"
       /\ ~jsonParses(reqs[r].raw) /\ ~jsonParses(braceMatch(reqs[r].raw)))
      => Answered(reqs[r], 500, "Malformed gameplan data from OpenAI.")

gameplanRows(id) == {k \in 1..Len(dbGameplans) : k = id}
goalRows(id) == {k \in 1..Len(dbGoals) : dbGoals[k].gameplan_id = id}
flashcardRows(id) == {k \in 1..Len(dbFlashcards) : dbFlashcards[k].gameplan_id = id}

\* C5: every 200 response of the handler carries the id of a gameplan row that
\* was persisted for this request, and every goal and every flashcard string
\* listed in the response has a persisted goal or flashcard row attached to
\* that gameplan.
C5_ResponsePersisted ==
  \A r \in 1..Len(reqs) :
    (reqs[r].pc = "done" /\ reqs[r].res.status = 200) =>
      /\ gameplanRows(reqs[r].res.gameplanId) # {}
      /\ \A k \in 1..Len(reqs[r].res.goals) :
           \E g \in goalRows(reqs[r].res.gameplanId) :
             /\ g = reqs[r].res.goals[k].id
             /\ dbGoals[g].description = reqs[r].res.goals[k].description
      /\ \A k \in 1..Len(reqs[r].res.flashcards) :
           \E f \in flashcardRows(reqs[r].res.gameplanId) :
             dbFlashcards[f].content = reqs[r].res.flashcards[k]

(***************************************************************************)
(* Properties of the chat page, the handler and the data store (Spec)      *)
(***************************************************************************)
\* C6: every gameplan row is created by one request of the handler and is owned
\* by the user of the session of that request, also when the userId of the
\* request body names another user; no step changes the owner of a row.
C6_SessionOwner ==
  /\ [](\A k \in 1..Len(dbGameplans) :
          /\ dbGameplans[k].user_id \in Users
          /\ \E r \in 1..Len(reqs) :
               /\ reqs[r].gameplanId = k
               /\ ~NoValidSession(reqs[r])
               /\ dbGameplans[k].user_id = reqs[r].session
               /\ \A r2 \in 1..Len(reqs) : reqs[r2].gameplanId = k => r2 = r)
  /\ [][\A k \in 1..Len(dbGameplans) :
          /\ k <= Len(dbGameplans')
          /\ dbGameplans'[k].user_id = dbGameplans[k].user_id]_vars

C6_Witness ==
  \E r \in 1..Len(reqs) :
    /\ reqs[r].gameplanId \in 1..Len(dbGameplans)
    /\ reqs[r].body.userId.value # reqs[r].session
    /\ dbGameplans[reqs[r].gameplanId].user_id = reqs[r].session
    /\ dbGameplans[reqs[r].gameplanId].completed

\* the steps in which the handler of a failed external call finishes
FailedFetchReturn ==
  \E i \in 1..Len(ops) :
    \/ ChatFetchReturn(i, "error")
    \/ ChatFetchReturn(i, "reject")
    \/ GameplanFetchReturn(i) /\ ~IsGameplanJson(reqs[ops[i].id].res)
    \/ GameplanFetchReject(i)

FailedUpdateReturn ==
  \E i \in 1..Len(ops) :
    \/ GoalUpdateReturn(i) /\ ops[i].result = "error"
    \/ CompleteReturn(i) /\ ops[i].result = "error"

OneMoreError == errorCount(messages') = errorCount(messages) + 1

\* C9 as stated: every failed external call of the chat page appends exactly
\* one bot error message, and once its handler has finished loadingFetch is
\* false.
C9_ErrorAndIdle ==
  [][(FailedFetchReturn \/ FailedUpdateReturn) => (OneMoreError /\ ~loadingFetch')]_vars

\* C9: every failed external call of the chat page appends exactly one bot
\* error message; once the handler of a failed /api/chat or /api/gameplan
\* request has finished loadingFetch is false, and the handler of a failed goal
\* status or completion update leaves loadingFetch as it is.
C9_ErrorMessage ==
  [][/\ FailedFetchReturn => (OneMoreError /\ ~loadingFetch')
     /\ FailedUpdateReturn => (OneMoreError /\ loadingFetch' = loadingFetch)]_vars

C9_Witness ==
  /\ loadingFetch
  /\ acts.goalUpdates < MaxGoalUpdates
  /\ \A i \in 1..Len(ops) : ops[i].kind = "chat"
  /\ Len(ops) = 1
  /\ messages[Len(messages)] = Text("bot", "Sorry")

\* C10: no failed external call is retried: for one request the handler calls
\* the LLM at most once and performs each of the three inserts at most once,
\* and the chat page sends at most one request per user action that asks for
\* one.
C10_NoRetry ==
  /\ \A r \in 1..Len(reqs) :
       /\ reqs[r].llmCalls <= 1
       /\ reqs[r].gameplanInserts <= 1
       /\ reqs[r].goalInserts <= 1
       /\ reqs[r].flashcardInserts <= 1
  /\ apiSent <= apiActs

C10_Witness ==
  /\ \E r \in 1..Len(reqs) :
       /\ reqs[r].completion = "rejected"
       /\ reqs[r].llmCalls = 1
       /\ Answered(reqs[r], 500, "Failed to generate gameplan. Please try again.")
  /\ ops = <<>>
  /\ ~loadingFetch
  /\ messages[Len(messages)] = Text("bot", "Error")
  /\ apiSent = apiActs

(***************************************************************************)
(* Properties of the detail page and the data store (SpecDetail)           *)
(***************************************************************************)
\* C7: in every reachable state the persisted status of every goal is one of
\* not-started, in-progress, completed.
C7_StatusValues ==
  \A k \in 1..Len(dbGoals) : dbGoals[k].status \in Statuses

\* C8: when the detail page has marked all goals of its gameplan complete and
\* navigates to /chat?completed=true, every goal of the gameplan is persisted
\* with status completed, whatever single-goal updates are still in flight.
C8_NavigateCompleted ==
  [][(/\ router.pathname = DetailPath
      /\ router'.pathname = CompletedPath
      /\ {goals[n].id : n \in 1..Len(goals)} = goalRows(router.id))
       => \A k \in goalRows(router.id) : dbGoals'[k].status = "completed"]_vars

\* C11: goal status transitions are unconstrained: whatever status s a page
\* shows for a goal, for every other status t a status update of that goal to t
\* can be issued from the chat page and from the portfolio detail page,
\* including backwards moves such as completed to not-started.
C11_AnyTransition ==
  /\ \A g \in 1..Len(currentGoals), t \in Statuses :
       (Rendered /\ t # currentGoals[g].status /\ acts.goalUpdates > 0)
         => ENABLED UpdateGoalStatus(g, t)
  /\ \A g \in 1..Len(goals), t \in Statuses :
       (/\ DetailRendered
        /\ updatingGoalId # goals[g].id
        /\ t # goals[g].status
        /\ detailActs.updates < MaxDetailUpdates)
         => ENABLED DetailUpdateGoalStatus(g, t)

(***************************************************************************)
(* The FlashcardCard component (chat.tsx 855-1013, FlashcardCard.tsx)      *)
(***************************************************************************)
\* line 97: String.fromCharCode(97 + optIdx), optIdx counted from 1 here
CardLetters == <<"a", "b", "c", "d", "e", "f", "g", "h">>

\* the record the card renders: the chat page passes the result of its parser,
\* the detail page the result of its own
fc == IF host = "chat" THEN parsed ELSE parsedDetail

NoAnswer == ""

\* line 36: every question has an answer
allAnswered == \A q \in 1..Len(fc.questions) : answers[q] # NoAnswer

\* chat.tsx 868-872: choice === q.correct
IsCorrectChat(q, choice) == <<choice>> = q.correct

\* FlashcardCard.tsx 41-46: userChoice && q.correct &&
\* userChoice === q.correct.charAt(0).toLowerCase()
IsCorrectCard(q, choice) ==
  choice # NoAnswer /\ q.correct # <<>> /\ choice = toLowerCase(q.correct[1])

RECURSIVE countCorrect(_, _)
countCorrect(questions, chosen) ==
  IF questions = <<>> THEN 0
  ELSE (IF (IF host = "chat" THEN IsCorrectChat(Head(questions), Head(chosen))
            ELSE IsCorrectCard(Head(questions), Head(chosen)))
        THEN 1 ELSE 0) + countCorrect(Tail(questions), Tail(chosen))

\* lines 32-34 and 103-111: a radio button of question qIdx is chosen
HandleOptionChange(qIdx, optIdx) ==
  /\ host # "none" /\ ~showResults
  /\ qIdx \in 1..Len(fc.questions)
  /\ optIdx \in 1..Len(fc.questions[qIdx].options)
  /\ answers[qIdx] # CardLetters[optIdx]
  /\ answers' = [answers EXCEPT ![qIdx] = CardLetters[optIdx]]
  /\ UNCHANGED <<host, showResults, correctCount>>
  /\ UNCHANGED <<apiVars, dbVars, parseVars, pageVars, detailVars>>
  /\ UNCHANGED profileVars

\* lines 38-50 and 126-129: the form is submitted; onComplete is
\* markFlashcardSubmitted(0) on the chat page and handleFlashcardComplete(0)
\* on the detail page
HandleSubmitAnswers_persist ==
  /\ host # "none" /\ allAnswered /\ ~showResults
  /\ correctCount' = countCorrect(fc.questions, answers)
  /\ showResults' = TRUE
  /\ dbFlashcards' = [k \in 1..Len(dbFlashcards) |->
                        [dbFlashcards[k] EXCEPT !.content = @ \o <<"\n", "s">>]]
  /\ IF host = "chat"
     THEN /\ flashcardsSubmitted' = [flashcardsSubmitted EXCEPT ![1] = "true"]
          /\ UNCHANGED detailSubmitted
     ELSE /\ detailSubmitted' = [detailSubmitted EXCEPT ![1] = TRUE]
          /\ UNCHANGED flashcardsSubmitted
  /\ UNCHANGED <<host, answers>>
  /\ UNCHANGED <<stage, profileLoading, selectedTopic, selectedSkill, messages,
                 loadingFetch, currentGoals, currentGameplanId, showCompletionButton,
                 ops, acts, apiActs, apiSent>>
  /\ UNCHANGED <<router, loading, errorMsg, gameplan, goals, flashcards,
                 updatingGoalId, markingCompleted, detailOps, detailActs>>
  /\ UNCHANGED <<apiVars, dbGameplans, dbGoals, parseVars>>
  /\ UNCHANGED profileVars

HandleSubmitAnswers ==
  /\ host # "none" /\ allAnswered /\ ~showResults
  /\ correctCount' = countCorrect(fc.questions, answers)
  /\ showResults' = TRUE
  /\ IF host = "chat"
     THEN /\ flashcardsSubmitted' = [flashcardsSubmitted EXCEPT ![1] = "true"]
          /\ UNCHANGED detailSubmitted
     ELSE /\ detailSubmitted' = [detailSubmitted EXCEPT ![1] = TRUE]
          /\ UNCHANGED flashcardsSubmitted
  /\ UNCHANGED <<host, answers>>
  /\ UNCHANGED <<stage, profileLoading, selectedTopic, selectedSkill, messages,
                 loadingFetch, currentGoals, currentGameplanId, showCompletionButton,
                 ops, acts, apiActs, apiSent>>
  /\ UNCHANGED <<router, loading, errorMsg, gameplan, goals, flashcards,
                 updatingGoalId, markingCompleted, detailOps, detailActs>>
  /\ UNCHANGED <<apiVars, dbVars, parseVars>>
  /\ UNCHANGED profileVars

\* a Review Again that takes the submission back
ReviewAgain_unmark ==
  /\ host # "none" /\ showResults
  /\ showResults' = FALSE
  /\ flashcardsSubmitted' = [k \in 1..Len(flashcardsSubmitted) |-> "false"]
  /\ UNCHANGED <<host, answers, correctCount>>
  /\ UNCHANGED <<stage, profileLoading, selectedTopic, selectedSkill, messages,
                 loadingFetch, currentGoals, currentGameplanId, showCompletionButton,
                 ops, acts, apiActs, apiSent>>
  /\ UNCHANGED <<apiVars, dbVars, parseVars, detailVars>>
  /\ UNCHANGED profileVars

\* lines 182-187: Review Again
ReviewAgain ==
  /\ host # "none" /\ showResults
  /\ showResults' = FALSE
  /\ UNCHANGED <<host, answers, correctCount>>
  /\ UNCHANGED <<apiVars, dbVars, parseVars, pageVars, detailVars>>
  /\ UNCHANGED profileVars

\* the detail page is loaded again: its state is built from the rows of the
\* data store (portfolio/[id].tsx 53-106) and the card is mounted anew
ReloadDetail ==
  /\ host = "detail"
  /\ flashcards' = flashcardsFrom(router.id, 1)
  /\ detailSubmitted' = [k \in 1..Len(flashcardsFrom(router.id, 1)) |-> FALSE]
  /\ goals' = goalsFrom(router.id, 1)
  /\ answers' = [q \in 1..Len(fc.questions) |-> NoAnswer]
  /\ showResults' = FALSE
  /\ correctCount' = 0
  /\ UNCHANGED <<host, router, loading, errorMsg, gameplan, updatingGoalId,
                 markingCompleted, detailOps, detailActs>>
  /\ UNCHANGED <<apiVars, dbVars, parseVars, pageVars>>
  /\ UNCHANGED profileVars

\* the chat page is loaded again: a new ChatPage holds no message and so no
\* card (chat.tsx 145, 155-157)
ReloadChat ==
  /\ host = "chat"
  /\ host' = "none"
  /\ messages' = <<>>
  /\ flashcardsSubmitted' = <<>>
  /\ currentGoals' = <<>>
  /\ currentGameplanId' = 0
  /\ showCompletionButton' = FALSE
  /\ stage' = "loading"
  /\ profileLoading' = TRUE
  /\ selectedTopic' = ""
  /\ selectedSkill' = ""
  /\ answers' = <<>>
  /\ showResults' = FALSE
  /\ correctCount' = 0
  /\ UNCHANGED <<loadingFetch, ops, acts, apiActs, apiSent>>
  /\ UNCHANGED <<apiVars, dbVars, parseVars, detailVars>>
  /\ UNCHANGED profileVars

(***************************************************************************)
(* SpecCard: a gameplan with one flashcard is stored; the chat page has    *)
(* received it from /api/gameplan, or the detail page has fetched it       *)
(***************************************************************************)
\* the flashcard strings: one prompt text, the markers of a card in one case
CardInputs ==
  {c \in Cards :
     /\ c.header = "full" /\ c.url = Url1
     /\ \A k \in 1..Len(c.blocks) :
          c.blocks[k].prompt = Prompt1 /\ c.blocks[k].upper = c.blocks[1].upper}

InitCard ==
  /\ card \in CardInputs
  /\ content = buildContent(card)
  /\ parsed = parseFlashcardContent(content)
  /\ parsedDetail = parseFlashcardContentDetail(content)
  /\ ppc = [chat |-> TRUE, detail |-> TRUE]
  /\ env = [apiKey |-> TRUE]
  /\ reqs = <<>>
  /\ dbGameplans = <<[user_id |-> PageUser, topic |-> "Leadership", skill |-> "DEI",
                      completed |-> FALSE]>>
  /\ dbGoals = <<>>
  /\ dbFlashcards = <<[gameplan_id |-> 1, content |-> content]>>
  /\ host \in {"chat", "detail"}
  /\ answers = [q \in 1..Len(fc.questions) |-> NoAnswer]
  /\ showResults = FALSE
  /\ correctCount = 0
  \* chat.tsx 397-447: the state generateGameplan leaves
  /\ stage = IF host = "chat" THEN "chat" ELSE "loading"
  /\ profileLoading = (host # "chat")
  /\ selectedTopic = IF host = "chat" THEN "Leadership" ELSE ""
  /\ selectedSkill = IF host = "chat" THEN "DEI" ELSE ""
  /\ messages = IF host = "chat"
                THEN <<[sender |-> "bot", type |-> "flashcards", text |-> "",
                        flashcards |-> <<parsed>>, gameplanId |-> 1]>>
                ELSE <<>>
  /\ loadingFetch = FALSE
  /\ currentGoals = <<>>
  /\ flashcardsSubmitted = IF host = "chat" THEN <<"false">> ELSE <<>>
  /\ currentGameplanId = IF host = "chat" THEN 1 ELSE 0
  /\ showCompletionButton = (host = "chat")
  /\ ops = <<>>
  /\ acts = [decisions |-> 0, chats |-> 0, goalUpdates |-> 0, submits |-> 0,
             completes |-> 0, rechecks |-> 0]
  /\ apiActs = 0
  /\ apiSent = 0
  \* portfolio/[id].tsx 88-103: the state fetchDetail leaves
  /\ router = IF host = "detail" THEN [pathname |-> DetailPath, id |-> 1]
              ELSE [pathname |-> "/chat", id |-> 0]
  /\ loading = (host # "detail")
  /\ errorMsg = ""
  /\ gameplan = IF host = "detail" THEN [topic |-> "Leadership", skill |-> "DEI"]
                ELSE <<>>
  /\ goals = <<>>
  /\ flashcards = IF host = "detail" THEN <<parsedDetail>> ELSE <<>>
  /\ updatingGoalId = 0
  /\ markingCompleted = FALSE
  /\ detailSubmitted = IF host = "detail" THEN <<FALSE>> ELSE <<>>
  /\ detailOps = <<>>
  /\ detailActs = [updates |-> 0, marks |-> 0]
  /\ ProfileIdle

NextCard ==
  \/ \E qIdx \in 1..MaxQuestions, optIdx \in 1..Len(CardLetters) :
       HandleOptionChange(qIdx, optIdx)
  \/ HandleSubmitAnswers
  \/ ReviewAgain
  \/ ReloadDetail
  \/ ReloadChat

SpecCard == InitCard /\ [][NextCard]_vars

\* C12: no action on a flashcard (choosing an option, submitting the answers,
\* review again) writes to the data store or changes anything but the state of
\* the card and the submitted flag of the page that shows it, and a page that
\* is loaded again shows no flashcard as submitted.
C12_LocalOnly ==
  [][/\ UNCHANGED <<dbGameplans, dbGoals, dbFlashcards>>
     /\ (host = "chat" /\ host' = "chat") =>
          UNCHANGED <<stage, messages, currentGoals, currentGameplanId,
                      showCompletionButton, detailVars>>
     /\ (host = "detail") =>
          UNCHANGED <<pageVars, router, gameplan, goals, flashcards>>
     /\ (ReloadDetail \/ ReloadChat) =>
          /\ \A k \in 1..Len(flashcardsSubmitted') : flashcardsSubmitted'[k] # "true"
          /\ \A k \in 1..Len(detailSubmitted') : ~detailSubmitted'[k]]_vars

C12_Witness ==
  /\ host = "detail"
  /\ showResults
  /\ detailSubmitted = <<TRUE>>
  /\ Len(fc.questions) >= 2
  /\ dbFlashcards = <<[gameplan_id |-> 1, content |-> content]>>

(***************************************************************************)
(* The profile pages and the table profiles.  Two versions of the page     *)
(* exist: src/pages/profile.tsx saves with upsert, the older               *)
(* /src/pages/profile.tsx (unnamed/part_006) saves with insert.            *)
(***************************************************************************)
MaxVisits == 1
MaxSaves == 2

ProfileVersions == {"upsert", "insert"}

NoTopics == {}

\* the empty age field (the state age holds "" until a number is typed)
EmptyAge == 0 - 1

\* what the user has typed into the form when Save is pressed: two forms
\* that pass the validation, and one form for each way of failing it
Form(name, age, topics) == [name |-> name, age |-> age, topics |-> topics]
FormInputs ==
  {Form(<<"A", "n", "n">>, 30, {"Leadership"}),
   Form(<<" ", "B", "o">>, 30, {"Leadership"}),
   Form(<<" ">>, 30, {"Leadership"}),
   Form(<<"A", "n", "n">>, EmptyAge, {"Leadership"}),
   Form(<<"A", "n", "n">>, 0, {"Leadership"}),
   Form(<<"A", "n", "n">>, 30, NoTopics)}

\* rows of profiles with this primary key
profileRows(table, id) == {k \in 1..Len(table) : table[k].id = id}

\* .upsert(row): the row with the same primary key takes the given columns,
\* a new primary key gets a new row
upsertRow(table, row) ==
  IF profileRows(table, row.id) = {}
    THEN Append(table, row)
    ELSE [k \in 1..Len(table) |->
            IF table[k].id = row.id
              THEN [table[k] EXCEPT !.full_name = row.full_name, !.age = row.age]
              ELSE table[k]]

\* .insert(row): the primary key id refuses a second row
insertError(table, row) == profileRows(table, row.id) # {}
insertRow(table, row) == IF insertError(table, row) THEN table ELSE Append(table, row)

\* the form validation of handleSubmit; "" when the form is accepted
validateUpsert(in) ==
  IF trim(in.name) = <<>> THEN "Please enter your full name."
  ELSE IF in.age = EmptyAge \/ in.age < 1 THEN "Please enter a valid age."
  ELSE ""
validateInsert(in) ==
  IF trim(in.name) = <<>> THEN "Please enter your name."
  ELSE IF in.age = EmptyAge \/ in.age < 1 THEN "Please enter a valid age."
  ELSE IF in.topics = NoTopics THEN "Select at least one topic you'd like to discuss."
  ELSE ""

\* the page a user gets on opening /profile: the upsert version starts
\* loading the stored profile, the insert version shows the form at once
profilePage(version, visit) ==
  [version |-> version, visit |-> visit, path |-> "/profile",
   loading |-> (version = "upsert"), errorMsg |-> ""]

ProfileOp(kind, u, in) ==
  [kind |-> kind, user |-> u, visit |-> profilePages[u].visit,
   version |-> profilePages[u].version,
   row |-> [id |-> u, full_name |-> trim(in.name), age |-> in.age, topics |-> in.topics],
   state |-> "sent", result |-> "none"]

\* the page that started operation i is still the one the user has open
ProfileMounted(i) ==
  /\ profilePages[profileOps[i].user].visit = profileOps[i].visit
  /\ profilePages[profileOps[i].user].path = "/profile"

NoForm == [name |-> <<>>, age |-> EmptyAge, topics |-> NoTopics]

\* the accounts, in the order their pages were opened
UserList == <<"u1", "u2">>

\* the user opens /profile: the page mounts and its effect reads the profile
OpenProfile(u, version) ==
  /\ profileActs.visits < MaxVisits
  /\ profileActs' = [profileActs EXCEPT !.visits = @ + 1]
  /\ profilePages' = [profilePages EXCEPT ![u] = profilePage(version, profilePages[u].visit + 1)]
  /\ profileOps' = Append(profileOps,
       [ProfileOp("fetch", u, NoForm) EXCEPT !.visit = profilePages[u].visit + 1,
                                             !.version = version])
  /\ UNCHANGED dbProfiles
  /\ UNCHANGED <<parseVars, dbVars, apiVars, pageVars, detailVars, cardVars>>
  /\ UNCHANGED nav

\* fetchUserProfile / fetchProfile return
ProfileFetchReturn(i, ok) ==
  /\ i \in 1..Len(profileOps)
  /\ profileOps[i].kind = "fetch"
  /\ profileOps[i].state = "sent"
  /\ LET op == profileOps[i]
         u == op.user
         exists == ok /\ profileRows(dbProfiles, u) # {}
     IN /\ profileOps' = [profileOps EXCEPT ![i].state = "done"]
        /\ profilePages' =
             IF ~ProfileMounted(i) THEN profilePages
             ELSE IF op.version = "upsert"
               THEN [profilePages EXCEPT
                       ![u].loading = FALSE,
                       ![u].errorMsg = IF ok THEN ""
                                       ELSE "Could not load profile data. Please try again."]
             ELSE IF exists THEN [profilePages EXCEPT ![u].path = "/chat"]
             ELSE profilePages
  /\ UNCHANGED <<dbProfiles, profileActs>>
  /\ UNCHANGED <<parseVars, dbVars, apiVars, pageVars, detailVars, cardVars>>
  /\ UNCHANGED nav

\* handleSubmit up to its await
SubmitProfile(u, in) ==
  /\ profileActs.saves < MaxSaves
  /\ profilePages[u].path = "/profile"
  /\ ~profilePages[u].loading
  /\ profileActs' = [profileActs EXCEPT !.saves = @ + 1]
  /\ LET invalid == IF profilePages[u].version = "upsert"
                      THEN validateUpsert(in) ELSE validateInsert(in)
     IN IF invalid # ""
          THEN /\ profilePages' = [profilePages EXCEPT ![u].errorMsg = invalid]
               /\ UNCHANGED profileOps
          ELSE /\ profilePages' = [profilePages EXCEPT ![u].errorMsg = "",
                                                       ![u].loading = TRUE]
               /\ profileOps' = Append(profileOps, ProfileOp("save", u, in))
  /\ UNCHANGED dbProfiles
  /\ UNCHANGED <<parseVars, dbVars, apiVars, pageVars, detailVars, cardVars>>
  /\ UNCHANGED nav

\* the data store executes the save
DbProfileSave(i, ok) ==
  /\ i \in 1..Len(profileOps)
  /\ profileOps[i].kind = "save"
  /\ profileOps[i].state = "sent"
  /\ LET op == profileOps[i]
         error == \/ ~ok
                  \/ op.version = "insert" /\ insertError(dbProfiles, op.row)
     IN /\ dbProfiles' =
             IF ~ok THEN dbProfiles
             ELSE IF op.version = "upsert" THEN upsertRow(dbProfiles, op.row)
             ELSE insertRow(dbProfiles, op.row)
        /\ profileOps' = [profileOps EXCEPT
             ![i].state = "executed",
             ![i].result = IF error THEN "error" ELSE "ok"]
  /\ UNCHANGED <<profilePages, profileActs>>
  /\ UNCHANGED <<parseVars, dbVars, apiVars, pageVars, detailVars, cardVars>>
  /\ UNCHANGED nav

\* handleSubmit after its await
ProfileSaveReturn(i) ==
  /\ i \in 1..Len(profileOps)
  /\ profileOps[i].kind = "save"
  /\ profileOps[i].state = "executed"
  /\ LET op == profileOps[i]
         u == op.user
     IN /\ profileOps' = [profileOps EXCEPT ![i].state = "done"]
        /\ profilePages' =
             IF ~ProfileMounted(i) THEN profilePages
             ELSE IF op.version = "upsert"
               THEN [profilePages EXCEPT
                       ![u].loading = FALSE,
                       ![u].errorMsg = IF op.result = "error"
                                         THEN "Failed to save profile - please try again."
                                         ELSE "Profile saved successfully!"]
             ELSE IF op.result = "error"
               THEN [profilePages EXCEPT
                       ![u].loading = FALSE,
                       ![u].errorMsg = "There was an error saving your profile. Please try again."]
             ELSE [profilePages EXCEPT ![u].path = "/chat"]
  /\ UNCHANGED <<dbProfiles, profileActs>>
  /\ UNCHANGED <<parseVars, dbVars, apiVars, pageVars, detailVars, cardVars>>
  /\ UNCHANGED nav

\* every account has opened one of the two versions of /profile
InitProfile ==
  /\ ParseIdle
  /\ env = [apiKey |-> TRUE]
  /\ reqs = <<>>
  /\ dbGameplans = <<>>
  /\ dbGoals = <<>>
  /\ dbFlashcards = <<>>
  /\ PageInit
  /\ CardIdle
  /\ DetailIdle
  /\ dbProfiles = <<>>
  /\ profilePages \in [Users -> {profilePage(v, 1) : v \in ProfileVersions}]
  /\ profileOps = [k \in 1..Len(UserList) |-> ProfileOp("fetch", UserList[k], NoForm)]
  /\ profileActs = [visits |-> 0, saves |-> 0]
  /\ nav = NavIdle

NextProfile ==
  \/ \E u \in Users, v \in ProfileVersions : OpenProfile(u, v)
  \/ \E i \in 1..Len(profileOps), ok \in BOOLEAN : ProfileFetchReturn(i, ok)
  \/ \E u \in Users, in \in FormInputs : SubmitProfile(u, in)
  \/ \E i \in 1..Len(profileOps), ok \in BOOLEAN : DbProfileSave(i, ok)
  \/ \E i \in 1..Len(profileOps) : ProfileSaveReturn(i)

SpecProfile == InitProfile /\ [][NextProfile]_vars

\* C13: after any sequence of profile saves by any users the table profiles
\* holds at most one row per account, and a save for an account that already
\* has a row replaces that row: once the store has executed the save without
\* a failure of its own, the account's one row carries the saved values.
C13_OneRowReplaced ==
  [][\A i \in 1..Len(profileOps) :
       DbProfileSave(i, TRUE) =>
         /\ \A u \in Users : Cardinality(profileRows(dbProfiles', u)) <= 1
         /\ \A k \in profileRows(dbProfiles', profileOps[i].user) :
              /\ dbProfiles'[k].full_name = profileOps[i].row.full_name
              /\ dbProfiles'[k].age = profileOps[i].row.age]_vars

\* at most one row per account, whatever the page version
C13_OneRow ==
  \A u \in Users : Cardinality(profileRows(dbProfiles, u)) <= 1

\* a second save for an account that has a row has been executed
C13_Witness ==
  \E i, j \in 1..Len(profileOps) :
    /\ i < j
    /\ profileOps[i].kind = "save" /\ profileOps[j].kind = "save"
    /\ profileOps[i].user = profileOps[j].user
    /\ profileOps[i].result = "ok"
    /\ profileOps[j].state # "sent"

(***************************************************************************)
(* SpecRace: the chat page from the question "Would you like a week-long   *)
(* game plan?" on, with one more Yes/No decision than Spec allows and with *)
(* a refresh of the session that runs the profile check again.             *)
(***************************************************************************)
\* the state of the page after a topic and a skill have been selected and
\* /api/chat has answered both times (chat.tsx 208-303)
InitRace ==
  /\ ParseIdle
  /\ env = [apiKey |-> TRUE]
  /\ reqs = <<>>
  /\ dbGameplans = <<>>
  /\ dbGoals = <<>>
  /\ dbFlashcards = <<>>
  /\ stage = "confirmGameplan"
  /\ profileLoading = FALSE
  /\ selectedTopic = "Leadership"
  /\ selectedSkill = "DEI"
  /\ messages = <<Text("user", "topic"), Text("bot", "botReply"),
                  Text("user", "skill"), Text("bot", "botReply"),
                  Text("bot", "Would you like me to create a week-long game plan")>>
  /\ loadingFetch = FALSE
  /\ currentGoals = <<>>
  /\ flashcardsSubmitted = <<>>
  /\ currentGameplanId = 0
  /\ showCompletionButton = FALSE
  /\ ops = <<>>
  /\ acts = [decisions |-> MaxDecisions + 1, chats |-> 0, goalUpdates |-> 1,
             submits |-> MaxSubmits, completes |-> MaxCompletes,
             rechecks |-> MaxRechecks]
  /\ apiActs = 2
  /\ apiSent = 2
  /\ CardIdle
  /\ ProfileIdle
  /\ DetailIdle

\* the reply of the LLM with one goal and one flashcard
RaceReplies == {r \in PageReplies : r.goals # JUndefined}

NextRace ==
  \/ ProfileReloaded
  \/ \E decision \in {"yes", "no"} : GameplanDecision(decision)
  \/ \E g \in 1..Len(currentGoals), st \in Statuses : UpdateGoalStatus(g, st)
  \/ \E m \in 1..Len(messages), j \in 1..2 : MarkFlashcardSubmitted(m, j)
  \/ CompleteGameplan
  \/ \E i \in 1..Len(ops) :
       \/ TimerFire(i, PageUser)
       \/ GameplanFetchReturn(i)
       \/ \E ok \in BOOLEAN : DbGoalUpdate(i, ok)
       \/ GoalUpdateReturn(i)
       \/ \E ok \in BOOLEAN : DbComplete(i, ok)
       \/ CompleteReturn(i)
  \/ HandlerStep(RaceReplies)

SpecRace == InitRace /\ [][NextRace]_vars

\* the requests of the chat page to /api/chat and /api/gameplan in flight
backendInFlight ==
  Cardinality({i \in 1..Len(ops) : ops[i].kind \in {"topic", "skill", "chat", "gameplan"}})

\* C18: at most one request from the chat page to a backend function is in
\* flight at any time: once a topic, skill, Yes/No or send action has been
\* accepted no control of the page starts a second request before the handler
\* of the first has finished, so one Yes decision creates at most one gameplan.
C18_OneInFlight ==
  /\ backendInFlight <= 1
  /\ Len(dbGameplans) <= 1

\* handleCompleteGameplan has been called in this step
CompleteCalled ==
  /\ Len(ops') = Len(ops) + 1
  /\ ops'[Len(ops')].kind = "complete"

\* C17: the chat page marks a gameplan completed only in a state where it
\* holds at least one goal and at least one flashcard of that gameplan, every
\* one of these goals has status completed and every one of these flashcards
\* has been submitted.
C17_CompleteOnlyWhenDone ==
  [][CompleteCalled =>
       /\ Len(currentGoals) >= 1
       /\ \A k \in 1..Len(currentGoals) : currentGoals[k].status = "completed"
       /\ \E m \in 1..Len(messages) :
            /\ messages[m].type = "flashcards"
            /\ messages[m].gameplanId = currentGameplanId
            /\ Len(messages[m].flashcards) >= 1
            /\ Len(flashcardsSubmitted) = Len(messages[m].flashcards)
       /\ \A k \in 1..Len(flashcardsSubmitted) : flashcardsSubmitted[k] = "true"]_vars

\* a gameplan has been marked completed from the chat page
C17_Witness ==
  \E i \in 1..Len(ops) : ops[i].kind = "complete" /\ ops[i].result = "ok"

\* the requests that have had a row inserted into gameplans
writers == {r \in 1..Len(reqs) : reqs[r].gameplanId # Undefined}

\* C19: the handler performs its external calls in the order auth check, LLM
\* call, database writes, and every request that ends with a response other
\* than 200 (405, 401, 400 or 500) has written no gameplan, goal or flashcard
\* row: it has called no insert, and every row of the three tables belongs to
\* a gameplan inserted by a request that has not ended this way.
C19_OrderAndNoWrites ==
  /\ \A r \in 1..Len(reqs) :
       /\ reqs[r].llmCalls >= 1 =>
            (reqs[r].method = "POST" /\ ~NoValidSession(reqs[r]))
       /\ reqs[r].gameplanInserts >= 1 =>
            (reqs[r].llmCalls >= 1 /\ reqs[r].completion = "resolved")
       /\ reqs[r].goalInserts >= 1 => reqs[r].gameplanId # Undefined
       /\ reqs[r].flashcardInserts >= 1 => reqs[r].goalInserts >= 1
       /\ (reqs[r].pc = "done" /\ reqs[r].res.status # 200) =>
            /\ reqs[r].res.status \in {405, 401, 400, 500}
            /\ reqs[r].gameplanInserts = 0
            /\ reqs[r].goalInserts = 0
            /\ reqs[r].flashcardInserts = 0
            /\ reqs[r].gameplanId = Undefined
  /\ Len(dbGameplans) = Cardinality(writers)
  /\ \A k \in 1..Len(dbGameplans) : \E r \in writers : reqs[r].gameplanId = k
  /\ \A k \in 1..Len(dbGoals) : \E r \in writers : reqs[r].gameplanId = dbGoals[k].gameplan_id
  /\ \A k \in 1..Len(dbFlashcards) :
       \E r \in writers : reqs[r].gameplanId = dbFlashcards[k].gameplan_id

\* a request has ended with 500 after the LLM has replied, and no row exists
C19_Witness ==
  /\ \E r \in 1..Len(reqs) :
       /\ reqs[r].pc = "done"
       /\ reqs[r].res.status = 500
       /\ reqs[r].llmCalls = 1
       /\ reqs[r].completion = "resolved"
  /\ dbGameplans = <<>> /\ dbGoals = <<>> /\ dbFlashcards = <<>>

\* the order of the stages (chat.tsx 136-139)
StageOrder == <<"loading", "selectTopic", "selectSkill", "confirmGameplan", "chat">>

stageIndex(st) == CHOOSE k \in 1..Len(StageOrder) : StageOrder[k] = st

\* handleCompleteGameplan has returned in this step from a successful update
CompletedNow ==
  \E i \in 1..Len(ops) :
    /\ ops[i].kind = "complete" /\ ops[i].result = "ok"
    /\ ops' = removeAt(ops, i)

\* C20: the stage of the chat page moves only along loading, selectTopic,
\* selectSkill, confirmGameplan, chat, one step at a time, and it leaves chat
\* only for selectTopic after a gameplan has been marked completed; no other
\* event (a late response, a re-run of the profile check, a goal update) moves
\* the stage backwards or skips a stage.
C20_StageOrder ==
  [][stage' # stage =>
       \/ stageIndex(stage') = stageIndex(stage) + 1
       \/ stage = "chat" /\ stage' = "selectTopic" /\ CompletedNow]_vars

(***************************************************************************)
(* Properties of the goal updates and the completion of the chat page      *)
(***************************************************************************)
\* no goal status update of the chat page is in flight
NoGoalUpdateInFlight == \A i \in 1..Len(ops) : ops[i].kind # "goalUpdate"

\* C21: after any sequence of goal status updates issued from the chat page,
\* also updates of one goal that overlap in time, once no update is in flight
\* the status the page shows for each goal equals the persisted status of
\* that goal; an update that returns an error changes neither of them.
C21_ShownEqualsPersisted ==
  NoGoalUpdateInFlight =>
    \A k \in 1..Len(currentGoals) :
      /\ currentGoals[k].id \in 1..Len(dbGoals)
      /\ currentGoals[k].status = dbGoals[currentGoals[k].id].status

\* the update of handleCompleteGameplan fails in this step / the handler
\* returns from a failed update in this step
FailedCompleteWrite ==
  \E i \in 1..Len(ops) :
    /\ ops[i].kind = "complete" /\ ops[i].result = "sent"
    /\ ops' = [ops EXCEPT ![i].result = "error"]

FailedCompleteReturn ==
  \E i \in 1..Len(ops) :
    /\ ops[i].kind = "complete" /\ ops[i].result = "error"
    /\ ops' = removeAt(ops, i)

\* C22: when the update that marks a gameplan completed fails on the chat
\* page, the page state is unchanged apart from one appended bot error
\* message: messages, goals, flashcard flags, selected topic and skill,
\* gameplan id, completion button and stage keep their values, and the
\* completed flag of the gameplan is not written, so the button can be
\* pressed again.
C22_FailedCompletion ==
  [][/\ FailedCompleteWrite =>
          UNCHANGED <<dbVars, messages, currentGoals, flashcardsSubmitted, selectedTopic,
                      selectedSkill, currentGameplanId, showCompletionButton, stage>>
     /\ FailedCompleteReturn =>
          /\ messages' = Append(messages, Text("bot", "Sorry"))
          /\ UNCHANGED <<currentGoals, flashcardsSubmitted, selectedTopic, selectedSkill,
                         currentGameplanId, showCompletionButton, stage, loadingFetch>>
          /\ UNCHANGED dbVars
          /\ canComplete' = canComplete]_vars

\* a completion has failed: the gameplan is still the current one, its row
\* is not completed and the button is enabled
C22_Witness ==
  /\ acts.completes < MaxCompletes
  /\ \A i \in 1..Len(ops) : ops[i].kind # "complete"
  /\ currentGameplanId \in 1..Len(dbGameplans)
  /\ ~dbGameplans[currentGameplanId].completed
  /\ showCompletionButton /\ canComplete
  /\ messages[Len(messages)] = Text("bot", "Sorry")

(***************************************************************************)
(* The chat page with replies of the LLM whose lists are empty             *)
(***************************************************************************)
\* replies that pass the validation of gameplan.ts 105-121: one goal and one
\* flashcard, no goal, no flashcard
ListReplies ==
  {[text |-> BracedText, goals |-> JArray(<<Str("g1")>>), flashcards |-> JArray(<<FcObject>>)],
   [text |-> BracedText, goals |-> JArray(<<>>), flashcards |-> JArray(<<FcObject>>)],
   [text |-> BracedText, goals |-> JArray(<<Str("g1")>>), flashcards |-> JArray(<<>>)]}

NextLists ==
  \/ PageStep
  \/ HandlerStep(ListReplies)

SpecLists == Init /\ [][NextLists]_vars

\* C23: after every 200 response of the gameplan handler, also one whose
\* goals list or flashcards list is empty, the completion button of the chat
\* page can become enabled by goal updates and flashcard submissions.  Goal
\* updates and submissions change statuses and flags and never the lengths of
\* the two lists, so the button can become enabled exactly when the page
\* holds at least one goal and at least one flashcard flag.
C23_ButtonCanBeEnabled ==
  (showCompletionButton /\ currentGameplanId # 0) =>
     (Len(currentGoals) > 0 /\ Len(flashcardsSubmitted) > 0)

(***************************************************************************)
(* SpecRoundTrip: the handler builds the string of an object flashcard,    *)
(* each copy of the parser is run on it                                    *)
(***************************************************************************)
\* a watch URL with a second query parameter
Url3 == Url1 \o <<"&", "t", "=", "9">>

ObjectCards == [url : {Url1, Url2, Url3}, header : {"object"},
                description : {Desc1, Desc2}, blocks : BlockSeqs]

\* the item {video_url, description, questions} of the reply: questions holds
\* the lines of the blocks, one string per line
objectItem(c) ==
  LET ls == allBlockLines(c.blocks, 1) IN
  [type |-> "object", value |-> <<>>,
   keys |-> {"video_url", "description", "questions"},
   video_url |-> c.url, description |-> c.description,
   questions |-> [k \in 1..Len(ls) |-> Str(ls[k])],
   iterable |-> TRUE]

InitRoundTrip ==
  /\ card \in ObjectCards
  /\ content = normalizeFlashcard(objectItem(card))
  /\ parsed = <<>>
  /\ parsedDetail = <<>>
  /\ ppc = [chat |-> FALSE, detail |-> FALSE]
  /\ SystemIdle

SpecRoundTrip == InitRoundTrip /\ [][NextParse]_vars

\* C24: for an object flashcard {video_url, description, questions} with a
\* YouTube watch URL, a single-line description and questions lines of the
\* 'N. ' / option / 'Correct:' shape, parsing the raw string the handler
\* builds yields videoUrl = video_url, descriptionLines = [description] and
\* one question record per 'N. ' line holding its option texts and its
\* correct letter.
C24_RoundTrip ==
  ppc.chat =>
    /\ parsed.videoUrl = card.url
    /\ parsed.descriptionLines = <<card.description>>
    /\ Len(parsed.questions) = Len(card.blocks)
    /\ \A k \in 1..Len(parsed.questions) :
         /\ parsed.questions[k].prompt = card.blocks[k].prompt
         /\ parsed.questions[k].options = OptionTexts
         /\ parsed.questions[k].correct = correctAsWritten(card.blocks[k])

\* the form of the card is submitted in this step
SubmittedNow == ~showResults /\ showResults'

\* the questions of the written card whose Correct: line names the chosen letter
namedCorrect(c, chosen) ==
  {k \in 1..Len(c.blocks) :
     /\ k \in 1..Len(chosen)
     /\ c.blocks[k].correct # ""
     /\ chosen[k] = c.blocks[k].correct}

\* C25: when a flashcard form is submitted, the reported count of correct
\* answers is the number of questions whose selected option letter is the
\* letter named by the Correct: line of the question, a number between 0 and
\* the number of questions; a submission happens only while every question
\* has a selection and the results are not shown.
C25_CorrectCount ==
  [][SubmittedNow =>
       /\ allAnswered
       /\ correctCount' = Cardinality(namedCorrect(card, answers))
       /\ correctCount' \in 0..Len(fc.questions)]_vars

\* the status updates of single goals the detail page has in flight
updatesInFlight == {i \in 1..Len(detailOps) : detailOps[i].kind = "update"}

\* C26: on the detail page, while a status update of a goal is in flight the
\* status control of that goal stays disabled (line 277: updatingGoalId ===
\* goal.id), also when updates of other goals start or finish meanwhile, so
\* at most one update per goal is in flight.
C26_ControlDisabled ==
  /\ \A i \in updatesInFlight :
       DetailRendered => updatingGoalId = detailOps[i].ids[1]
  /\ \A i, j \in updatesInFlight :
       detailOps[i].ids[1] = detailOps[j].ids[1] => i = j

\* the calls of handleMarkCompleted in flight, and a step of one of them: the
\* call starts, one of its updates is run by the data store, or it returns
marksInFlight(os) == {os[i] : i \in {n \in 1..Len(os) : os[n].kind = "markAll"}}
MarkStep == marksInFlight(detailOps') # marksInFlight(detailOps)

\* C27: marking all goals complete on the detail page writes goal statuses
\* only: it leaves the gameplan rows with their completed flags and all
\* flashcard rows unchanged, every goal row keeps its gameplan and its
\* description, and the goal statuses in the local state of the page stay as
\* they are.
C27_GoalStatusesOnly ==
  [][MarkStep =>
       /\ UNCHANGED <<dbGameplans, dbFlashcards, goals>>
       /\ Len(dbGoals') = Len(dbGoals)
       /\ \A n \in 1..Len(dbGoals) :
            /\ dbGoals'[n] = [dbGoals[n] EXCEPT !.status = dbGoals'[n].status]
            /\ dbGoals'[n].status \in {dbGoals[n].status, "completed"}]_vars

\* handleMarkCompleted has completed every goal row and left the page: the
\* gameplan row is not completed and the local statuses are the old ones
C27_Witness ==
  /\ router.pathname = CompletedPath
  /\ router.id \in 1..Len(dbGameplans)
  /\ ~dbGameplans[router.id].completed
  /\ Len(goals) = 2 /\ Len(flashcardsFrom(router.id, 1)) = 1
  /\ \A n \in 1..Len(goals) :
       /\ dbGoals[goals[n].id].status = "completed"
       /\ goals[n].status = "not-started"

(***************************************************************************)
(* SpecOwner: gameplans of two users are stored; the user of the pages     *)
(* opens the detail page of a gameplan id                                  *)
(***************************************************************************)
OwnerRequests ==
  {[method |-> "POST", session |-> u, sessionError |-> FALSE,
    body |-> [userId |-> Str(u), topic |-> Str("Leadership"), skill |-> Str("DEI")]]
     : u \in Users}

NextOwner ==
  \/ \E in \in OwnerRequests : DirectRequest(in)
  \/ HandlerStep(DetailReplies)
  \/ DetailStep

SpecOwner == InitDetail /\ [][NextOwner]_vars

\* portfolio.tsx 33-38 and profile.tsx 81-89: select ... .eq("user_id", user.id)
fetchGameplans(u) == {k \in 1..Len(dbGameplans) : dbGameplans[k].user_id = u}

\* profile.tsx 98-106: the goals of the gameplans of the list
fetchGameplanData(u) ==
  {n \in 1..Len(dbGoals) : dbGoals[n].gameplan_id \in fetchGameplans(u)}

\* the goal rows the detail page is writing
detailWrites ==
  UNION {{detailOps[i].ids[k] : k \in 1..Len(detailOps[i].ids)} :
           i \in {n \in 1..Len(detailOps) : detailOps[n].kind \in {"update", "markAll"}}}

\* C28: every gameplan the signed-in user can view or modify through the
\* portfolio list, the profile history or the detail page, with its goals
\* and flashcards, is owned by that user.
C28_OwnGameplansOnly ==
  /\ \A k \in fetchGameplans(PageUser) : dbGameplans[k].user_id = PageUser
  /\ \A n \in fetchGameplanData(PageUser) :
       dbGameplans[dbGoals[n].gameplan_id].user_id = PageUser
  /\ (DetailMounted /\ gameplan # <<>>) => dbGameplans[router.id].user_id = PageUser
  /\ \A n \in 1..Len(goals) :
       dbGameplans[dbGoals[goals[n].id].gameplan_id].user_id = PageUser
  /\ \A n \in detailWrites :
       dbGameplans[dbGoals[n].gameplan_id].user_id = PageUser

(***************************************************************************)
(* The redirects of the pages /, /signin, /profile and /chat               *)
(***************************************************************************)
MaxHops == 4

NavPaths == {"/", "/signin", "/profile", "/chat"}

\* router.replace(path): the page of the path mounts and its effect is due
navReplace(path) ==
  [nav EXCEPT !.path = path, !.effect = "pending", !.trail = Append(@, nav.path)]

\* the effect of the page shown runs (index.tsx 12-20, signin.tsx 19-23,
\* chat.tsx 170-177, profile.tsx 59-67): signed-out users are sent to
\* /signin, /signin sends a user to /chat, the other pages look the profile up
NavEffect ==
  /\ nav.effect = "pending"
  /\ Len(nav.trail) < MaxHops
  /\ nav' = IF nav.path = "/signin"
              THEN (IF nav.user # NoSession THEN navReplace("/chat")
                    ELSE [nav EXCEPT !.effect = "idle"])
            ELSE IF nav.user = NoSession THEN navReplace("/signin")
            ELSE [nav EXCEPT !.effect = "lookup"]
  /\ UNCHANGED <<dbProfiles, profilePages, profileOps, profileActs>>
  /\ UNCHANGED <<parseVars, dbVars, apiVars, pageVars, detailVars, cardVars>>

\* the lookup of the profile row returns (index.tsx 22-42, chat.tsx 179-192,
\* profile.tsx of part_006 69-83, src/pages/profile.tsx 50-72)
NavLookupReturn(ok) ==
  /\ nav.effect = "lookup"
  /\ LET found == ok /\ profileRows(dbProfiles, nav.user) # {} IN
     nav' = IF nav.path = "/"
              THEN (IF found THEN navReplace("/chat") ELSE navReplace("/profile"))
            ELSE IF nav.path = "/chat"
              THEN (IF found THEN [nav EXCEPT !.effect = "idle"]
                    ELSE navReplace("/profile"))
            ELSE IF nav.version = "insert" /\ found THEN navReplace("/chat")
            ELSE [nav EXCEPT !.effect = "idle"]
  /\ UNCHANGED <<dbProfiles, profilePages, profileOps, profileActs>>
  /\ UNCHANGED <<parseVars, dbVars, apiVars, pageVars, detailVars, cardVars>>

\* any page is opened by a signed-out user or by the user of the pages, with
\* or without a profile row, on either version of /profile
InitNav ==
  /\ ParseIdle
  /\ env = [apiKey |-> TRUE]
  /\ reqs = <<>>
  /\ dbGameplans = <<>>
  /\ dbGoals = <<>>
  /\ dbFlashcards = <<>>
  /\ PageInit
  /\ CardIdle
  /\ DetailIdle
  /\ dbProfiles \in {<<>>,
                     <<[id |-> PageUser, full_name |-> <<"A", "n", "n">>, age |-> 30,
                        topics |-> {"Leadership"}]>>}
  /\ profilePages = <<>>
  /\ profileOps = <<>>
  /\ profileActs = [visits |-> 0, saves |-> 0]
  /\ nav \in [user : {NoSession, PageUser}, path : NavPaths, version : ProfileVersions,
              effect : {"pending"}, trail : {<<>>}]

NextNav ==
  \/ NavEffect
  \/ \E ok \in BOOLEAN : NavLookupReturn(ok)

SpecNav == InitNav /\ [][NextNav]_vars

\* the page on which the user is to end
navHome ==
  IF nav.user = NoSession THEN "/signin"
  ELSE IF profileRows(dbProfiles, nav.user) # {} THEN "/chat"
  ELSE "/profile"

\* C29: automatic redirects settle: once no effect and no lookup is pending,
\* a signed-out user is on /signin, a signed-in user with a profile row on
\* /chat and a signed-in user without one on /profile; and no redirect leads
\* back to a page the browser has left before, so no sequence of redirects
\* repeats, also when a profile lookup returns an error.  The /profile page
\* is the one that sends a user with a profile row to /chat (part_006).
C29_RedirectsSettle ==
  nav.version = "insert" =>
    /\ nav.effect = "idle" => nav.path = navHome
    /\ \A k \in 1..Len(nav.trail) : nav.trail[k] # nav.path
    /\ \A j, k \in 1..Len(nav.trail) : nav.trail[j] = nav.trail[k] => j = k

\* a flag that markFlashcardSubmitted has set
IsSubmitted(flag) == flag \in {"true", "trueOther"}

\* C30: once a flashcard has been marked submitted on the chat page its flag
\* stays true, also after Review Again and after a second submission of its
\* answers, until the gameplan is marked completed or a new gameplan response
\* replaces the flags (both give the page another gameplan id), for as long
\* as the page that holds the flags is the one shown.
C30_FlagStaysTrue ==
  [][(currentGameplanId' = currentGameplanId /\ host' = host) =>
       \A k \in 1..Len(flashcardsSubmitted) :
         IsSubmitted(flashcardsSubmitted[k]) =>
           /\ k \in 1..Len(flashcardsSubmitted')
           /\ IsSubmitted(flashcardsSubmitted'[k])]_vars

\* the card was submitted, Review Again was pressed and another option was
\* chosen: the flag is true while the form is open for a second submission
C30_Witness ==
  /\ host = "chat"
  /\ ~showResults /\ allAnswered
  /\ Len(flashcardsSubmitted) = 1 /\ flashcardsSubmitted[1] = "true"
  /\ correctCount # countCorrect(fc.questions, answers)

====
